---- MODULE Spec2Model ----
(***************************************************************************)
(* A model of pylogix: the entity graph of a Logix controller project, its *)
(* name-reference resolution pass (rebind), the rung text miner, the       *)
(* dependency closure and the driver-routine propagation.                   *)
(*                                                                         *)
(* Python strings are sequences of one-character strings, so that find,    *)
(* split, replace and slicing are computed as the code computes them.      *)
(***************************************************************************)
EXTENDS Integers, Sequences, FiniteSets, TLC

VARIABLES
    name,        \* PyLogixObject._name of the entity whose name is assigned
    nameArg,     \* the value of the last assignment to .name
    namePrev,    \* the name before the last assignment
    nameRaised,  \* TRUE when the last assignment raised ValueError
    member,      \* a DataTypeMember read from a Member element
    declared,    \* the DataType attribute the member was read with
    emitted,     \* <<attributes of the Member element written>>, <<>> before emission
    rungText,    \* Rung.text
    mined,       \* TRUE when the two results below are those of the current text
    instrMetas,  \* the result of Rung.__get_instruction_metas__, as a set
    tagMetas,    \* the result of Rung.__get_tag_metas__, as the set of its elements
    heap,        \* the objects of the project, by id
    controller,  \* the Controller: its description and its lists of ids
    rebinds,     \* how many times controller.rebind() has run
    depsCall,    \* <<entity, include_root>> of the last get_dependencies call
    depsResult,  \* <<what that call gave>>
    acc,         \* a PyLogixDependencies that calls accumulate into
    accOp,       \* the last call on acc: "none" before the first
    pushed,      \* <<what the last driver push did>>, <<>> before the first
    other_obj,   \* <<the Controller updates are pushed to>>, <<>> while there is none
    merge,       \* <<what the last push or merge call did>>, <<>> before the first
    the_tag,     \* a Tag under construction: its dimensions and its data
    xml_io       \* <<what the last read or write of an XML node did>>, <<>> before the first

nameVars == <<name, nameArg, namePrev, nameRaised>>
memberVars == <<member, declared, emitted>>
minerVars == <<rungText, mined, instrMetas, tagMetas>>
graphVars == <<heap, controller, rebinds, depsCall, depsResult>>
accVars == <<acc, accOp>>
mergeVars == <<other_obj, merge>>
dataVars == <<the_tag, xml_io>>
vars == <<name, nameArg, namePrev, nameRaised, member, declared, emitted,
          rungText, mined, instrMetas, tagMetas,
          heap, controller, rebinds, depsCall, depsResult, acc, accOp, pushed,
          other_obj, merge, the_tag, xml_io>>

(***************************************************************************)
(* Python string primitives                                                *)
(***************************************************************************)
\* x in s, for a one-character x
HasChar(s, c) == \E i \in 1..Len(s) : s[i] = c

Min(a, b) == IF a < b THEN a ELSE b

Max(a, b) == IF a > b THEN a ELSE b

\* s.find(c) for a one-character c: the 0-based index of the first c, or -1
Find(s, c) ==
    IF HasChar(s, c)
    THEN (CHOOSE i \in 1..Len(s) : s[i] = c /\ \A j \in 1..(i - 1) : s[j] # c) - 1
    ELSE -1

\* the position a slice bound denotes: negative bounds count from the end
SliceBound(s, i) == IF i < 0 THEN Max(Len(s) + i, 0) ELSE Min(i, Len(s))

\* s[a:b]
Slice(s, a, b) == SubSeq(s, SliceBound(s, a) + 1, SliceBound(s, b))

\* s[a:]
SliceFrom(s, a) == SubSeq(s, SliceBound(s, a) + 1, Len(s))

\* s.split(c) for a one-character c
RECURSIVE Split(_, _)
Split(s, c) ==
    IF ~HasChar(s, c) THEN <<s>>
    ELSE <<Slice(s, 0, Find(s, c))>> \o Split(SliceFrom(s, Find(s, c) + 1), c)

\* the characters str.strip() and int() treat as whitespace
Whitespace == {" ", "\t", "\n", "\r"}

\* s.lstrip()
RECURSIVE LStrip(_)
LStrip(s) == IF s # <<>> /\ Head(s) \in Whitespace THEN LStrip(Tail(s)) ELSE s

\* s.rstrip()
RECURSIVE RStrip(_)
RStrip(s) ==
    IF s # <<>> /\ s[Len(s)] \in Whitespace THEN RStrip(SubSeq(s, 1, Len(s) - 1)) ELSE s

\* s.strip()
Strip(s) == RStrip(LStrip(s))

\* re.sub('[' + chars + ']', '', s)
RemoveChars(s, chars) == SelectSeq(s, LAMBDA ch : ch \notin chars)

Digits == {"0", "1", "2", "3", "4", "5", "6", "7", "8", "9"}

\* int(s) succeeds: whitespace, an optional sign, then digits in which single
\* underscores may stand between two digits
IntParses(s) ==
    LET t == Strip(s)
        u == IF t # <<>> /\ Head(t) \in {"+", "-"} THEN Tail(t) ELSE t
    IN  /\ u # <<>>
        /\ \A i \in 1..Len(u) : u[i] \in Digits \cup {"_"}
        /\ u[1] \in Digits
        /\ u[Len(u)] \in Digits
        /\ \A i \in 1..(Len(u) - 1) : ~(u[i] = "_" /\ u[i + 1] = "_")

\* the set of the elements of a list
Range(seq) == {seq[i] : i \in 1..Len(seq)}

(***************************************************************************)
(* PyLogixObject.name                                                      *)
(***************************************************************************)
MaxNameLen == 3

bad_vals_nospace == {".", ",", "-", "/", "\\", "!", "@", "#", "$", "%", "^", "&", "*", "(", ")", "=", "+"}

bad_vals == {".", ",", "-", "/", "\\", "!", "@", "#", "$", "%", "^", "&", "*", "(", ")", "=", "+", " "}

\* the characters assigned names are drawn from: every rejected one, a
\* letter, and two punctuation characters the setter does not reject
NameChars ==
    {".", ",", "-", "/", "\\", "!", "@", "#", "$", "%", "^", "&", "*", "(", ")", "=", "+", " ",
     "a", "?", "_"}

\* a run of k letters
Letters(k) == [i \in 1..k |-> "a"]

\* the values assigned: letters around at most one other character, as in
\* "My Tag"
NameValues ==
    {v \in {Letters(k) \o mid \o Letters(j) :
                k \in 0..MaxNameLen, j \in 0..MaxNameLen,
                mid \in {<<>>} \cup {<<c>> : c \in NameChars}} :
        Len(v) <= MaxNameLen}

on_new_name(value) == TRUE

\* obj.name = value
SetName(value) ==
    /\ nameArg' = value
    /\ namePrev' = name
    /\ IF \E x \in bad_vals : HasChar(value, x)
       THEN /\ nameRaised' = TRUE
            /\ name' = name
       ELSE /\ nameRaised' = FALSE
            /\ name' = IF on_new_name(value) THEN value ELSE name

(***************************************************************************)
(* DataTypeMember: BIT / BOOL normalisation                                *)
(***************************************************************************)
MaxDim == 2

NoAttr == "<none>"

\* Python's None where the other values are lists, strings or references
None == <<>>

\* an optional value that is present
Some(x) == <<x>>

Str_BOOL == <<"B", "O", "O", "L">>
Str_BIT == <<"B", "I", "T">>
Str_SINT == <<"S", "I", "N", "T">>
Str_USINT == <<"U", "S", "I", "N", "T">>
Str_INT == <<"I", "N", "T">>
Str_UINT == <<"U", "I", "N", "T">>
Str_DINT == <<"D", "I", "N", "T">>
Str_UDINT == <<"U", "D", "I", "N", "T">>
Str_LINT == <<"L", "I", "N", "T">>
Str_REAL == <<"R", "E", "A", "L">>
Str_TIMER == <<"T", "I", "M", "E", "R">>
Str_CONTROL == <<"C", "O", "N", "T", "R", "O", "L">>
Str_U1 == <<"U", "1">>
Str_M1 == <<"M", "1">>

\* the declared types members are read with: the two names of the
\* normalisation, one more atomic type, one base instruction and one
\* user-defined type
TypeNames == {Str_BIT, Str_BOOL, Str_DINT, Str_TIMER, Str_U1}

\* LogixRadix.from_string: a member of the enumeration or None
Radixes == {None, Some("Decimal"), Some("ASCII")}

DataTypeMemberInit_keep(mname, meta, dim, radix, hidden) ==
    [name |-> mname, datatype |-> None, datatype_meta_name |-> meta,
     dimensions |-> dim, radix |-> radix, hidden |-> hidden]

\* DataTypeMember.__init__
DataTypeMemberInit(mname, meta, dim, radix, hidden) ==
    [name |-> mname, datatype |-> None,
     datatype_meta_name |-> IF meta = Str_BIT THEN Str_BOOL ELSE meta,
     dimensions |-> dim, radix |-> radix, hidden |-> hidden]

\* bool_to_l5x
bool_to_l5x(b) == IF b THEN "true" ELSE "false"

\* the attributes set by DataTypeMember.to_l5x_xml_node
MemberAttrs(m) ==
    [Name |-> m.name,
     DataType |-> IF m.datatype_meta_name # Str_BOOL THEN m.datatype_meta_name
                  ELSE IF m.dimensions = 0 THEN Str_BIT ELSE Str_BOOL,
     Dimension |-> m.dimensions,
     Radix |-> IF m.radix # None THEN m.radix[1] ELSE NoAttr,
     Hidden |-> bool_to_l5x(m.hidden)]

\* DataTypeMember.from_l5x_xml_node of a Member element
ReadMember(meta, dim, radix, hidden) ==
    /\ member' = DataTypeMemberInit(Str_M1, meta, dim, radix, hidden)
    /\ declared' = meta
    /\ emitted' = <<>>

\* DataTypeMember.to_l5x_xml_node
EmitMember ==
    /\ emitted' = <<MemberAttrs(member)>>
    /\ UNCHANGED <<member, declared>>

(***************************************************************************)
(* Rung text miner                                                         *)
(***************************************************************************)
MaxTextLen == 4

\* the characters rung texts are typed from: a letter, a digit, the
\* delimiters of the miner, a space and an illegal character
MinerChars == {"A", "5", "(", ")", ",", ".", "[", " ", "?"}

Text_XIC_OTE == <<"X", "I", "C", "(", "S", "t", "a", "r", "t", ")", "O", "T", "E", "(", "M", "o", "t", "o", "r", "1", ")">>

Text_MOV == <<"M", "O", "V", "(", "S", "e", "t", "p", "o", "i", "n", "t", "[", "2", "]", ",", "O", "u", "t", "p", "u", "t", ")">>

Text_Member == <<"X", "I", "C", "(", "P", "u", "m", "p", ".", "R", "u", "n", ")", "M", "O", "V", "(", "5", ",", "O", "u", "t", "[", "1", "]", ".", "V", "a", "l", ")">>

ExampleTexts == {Text_XIC_OTE, Text_MOV, Text_Member}

\* instruction[:instruction.find('(')]
InstructionPrefix(instruction) == Slice(instruction, 0, Find(instruction, "("))

\* Rung.__get_instruction_metas__ (list(set(...)): the order is unspecified)
get_instruction_metas(text) ==
    IF text = <<>> THEN {}
    ELSE LET illegal_chars == {",", "\"", "'", "?", ":", "[", "]"}
             fragments == Split(text, ")")
         IN  {Strip(RemoveChars(InstructionPrefix(fragments[i]), illegal_chars)) :
                 i \in 1..Len(fragments)}

\* tag[:bracket_char] when the tag has a '['
StripIndex_keep(tag) == tag

StripIndex(tag) == IF Find(tag, "[") # -1 THEN Slice(tag, 0, Find(tag, "[")) ELSE tag

\* Rung.__get_tag_metas__; upper_tags_pre is a set, so the order of the
\* returned list is unspecified and only its elements are modelled
get_tag_metas(text) ==
    IF text = <<>> THEN {}
    ELSE LET illegal_chars == {",", "\"", "'", "?", ":"}
             fragments == Split(text, ")")
             iter_instructions ==
                 UNION {Range(Split(SliceFrom(fragments[i], Find(fragments[i], "(") + 1), ",")) :
                           i \in {j \in 1..Len(fragments) : HasChar(fragments[j], "(")}}
             upper_tags_pre == {Split(tag, ".")[1] : tag \in iter_instructions}
             kept == {tag \in upper_tags_pre :
                         /\ tag # <<>>
                         /\ ~\E x \in illegal_chars : HasChar(tag, x)
                         /\ ~IntParses(tag)}
         IN  {StripIndex(tag) : tag \in kept}

\* rung.text = rung.text + c
EditText(c) ==
    /\ Len(rungText) < MaxTextLen
    /\ rungText' = Append(rungText, c)
    /\ mined' = FALSE
    /\ instrMetas' = {}
    /\ tagMetas' = {}

\* Rung(text=t)
LoadText(t) ==
    /\ rungText' = t
    /\ mined' = FALSE
    /\ instrMetas' = {}
    /\ tagMetas' = {}

\* the two scans Rung.from_l5x_xml_node runs over the text
Mine ==
    /\ ~mined
    /\ mined' = TRUE
    /\ instrMetas' = get_instruction_metas(rungText)
    /\ tagMetas' = get_tag_metas(rungText)
    /\ UNCHANGED rungText

(***************************************************************************)
(* Entity graph: objects live in a heap and refer to each other by id      *)
(***************************************************************************)
\* the id of the n-th object of a kind
Id(kind, n) == <<kind, n>>

IdsOf(h, kind) == {i \in DOMAIN h : i[1] = kind}

\* the id a newly constructed object of the kind gets
NewId(h, kind) == Id(kind, Cardinality(IdsOf(h, kind)) + 1)

\* s.find(c, start)
FindFrom(s, c, start) ==
    IF \E i \in (start + 1)..Len(s) : s[i] = c
    THEN (CHOOSE i \in (start + 1)..Len(s) : s[i] = c /\ \A j \in (start + 1)..(i - 1) : s[j] # c) - 1
    ELSE -1

\* s.lstrip(c)
RECURSIVE LStripChar(_, _)
LStripChar(s, c) == IF s # <<>> /\ Head(s) = c THEN LStripChar(Tail(s), c) ELSE s

\* s.rstrip(c)
RECURSIVE RStripChar(_, _)
RStripChar(s, c) ==
    IF s # <<>> /\ s[Len(s)] = c THEN RStripChar(SubSeq(s, 1, Len(s) - 1), c) ELSE s

\* s[i:].startswith(sub), for a 1-based i
StartsWithAt(s, sub, i) ==
    /\ i + Len(sub) - 1 <= Len(s)
    /\ \A k \in 1..Len(sub) : s[i + k - 1] = sub[k]

\* sub in s
Contains(s, sub) == \E i \in 1..(Len(s) + 1) : StartsWithAt(s, sub, i)

\* s.replace(old, new)
RECURSIVE Replace(_, _, _)
Replace(s, old, new) ==
    IF old = <<>>
    THEN IF s = <<>> THEN new ELSE new \o <<Head(s)>> \o Replace(Tail(s), old, new)
    ELSE IF Len(s) < Len(old) THEN s
    ELSE IF StartsWithAt(s, old, 1)
         THEN new \o Replace(SubSeq(s, Len(old) + 1, Len(s)), old, new)
         ELSE <<Head(s)>> \o Replace(Tail(s), old, new)

(***************************************************************************)
(* Description metadata                                                    *)
(***************************************************************************)
Str_AtTYPE == <<"@", "T", "Y", "P", "E">>
Str_AtVERSION == <<"@", "V", "E", "R", "S", "I", "O", "N">>
Str_AtDESC == <<"@", "D", "E", "S", "C">>
Str_AtNOEDITS == <<"@", "N", "O", "E", "D", "I", "T", "S">>
Str_AtGENERATOR == <<"@", "G", "E", "N", "E", "R", "A", "T", "O", "R">>

\* the values of DescriptionPropertyIdentifier
DescriptionPropertyIdentifier ==
    {<<"N", "/", "A">>, <<"@", "A", "O", "I">>,
     <<"@", "C", "O", "N", "T", "R", "O", "L", "L", "E", "R">>,
     <<"@", "D", "A", "T", "A", "T", "Y", "P", "E">>, <<"@", "I", "N", "F", "O">>,
     <<"@", "M", "O", "D", "U", "L", "E">>, <<"@", "P", "R", "O", "G", "R", "A", "M">>,
     <<"@", "R", "O", "U", "T", "I", "N", "E">>, <<"@", "R", "U", "N", "G">>,
     <<"@", "T", "A", "G">>, <<"@", "T", "A", "S", "K">>, <<"@", "T", "O", "D", "O">>,
     <<"@", "U", "D", "T">>}

\* DescriptionProperties()
DescriptionProperties ==
    [identifier |-> None, type |-> None, version |-> None, description |-> None,
     editable |-> None]

\* DescriptionProperties.parse_from_property
parse_from_property(desc_props, property_to_find) ==
    IF \E i \in 1..Len(desc_props) : Contains(desc_props[i], property_to_find)
    THEN LET i == CHOOSE k \in 1..Len(desc_props) :
                      /\ Contains(desc_props[k], property_to_find)
                      /\ \A j \in 1..(k - 1) : ~Contains(desc_props[j], property_to_find)
         IN  Some(Strip(Replace(desc_props[i], property_to_find, <<>>)))
    ELSE None

\* DescriptionProperties.get_properties
get_properties(description_properties) ==
    IF description_properties = <<>> THEN DescriptionProperties
    ELSE [identifier |-> IF description_properties[1] \in DescriptionPropertyIdentifier
                         THEN Some(description_properties[1]) ELSE Some(<<>>),
          type |-> parse_from_property(description_properties, Str_AtTYPE),
          version |-> parse_from_property(description_properties, Str_AtVERSION),
          description |-> parse_from_property(description_properties, Str_AtDESC),
          editable |-> Some(~\E i \in 1..Len(description_properties) :
                                 description_properties[i] = Str_AtNOEDITS)]

\* PyLogixObject.property_list_from_string, with begin_char '<' and end_char
\* '>'; a description of None is the empty string here
RECURSIVE property_list_from_string(_, _)
property_list_from_string(string, properties) ==
    IF string = <<>> THEN properties
    ELSE LET find_begin == Find(string, "<")
             begin_anchor == find_begin + 1
             find_end == FindFrom(string, ">", begin_anchor)
             end_anchor == begin_anchor + (find_end - 1)
         IN  IF find_begin = -1 THEN properties
             ELSE IF find_end = -1 THEN properties
             ELSE property_list_from_string(
                      LStrip(SliceFrom(string, begin_anchor + find_end)),
                      Append(properties,
                             RStripChar(LStripChar(Slice(string, begin_anchor, end_anchor), "<"),
                                        ">")))

\* PyLogixObject.rebind
PyLogixObject_rebind(obj) ==
    [obj EXCEPT !.description_properties =
                    get_properties(property_list_from_string(obj.description, <<>>))]

(***************************************************************************)
(* PylogixList and PyLogixDependencies                                     *)
(***************************************************************************)
\* equality by identity alone
ObjEq_identity(h, a, b) == a = b

\* PyLogixObject.__eq__ for two objects of the heap
ObjEq(h, a, b) == a = b \/ h[a].name = h[b].name

\* item in lst
InList(h, item, lst) == \E i \in 1..Len(lst) : ObjEq(h, lst[i], item)

\* list.remove(item): the first equal element goes
ListRemove(h, lst, item) ==
    IF ~InList(h, item, lst) THEN lst
    ELSE LET i == CHOOSE k \in 1..Len(lst) :
                      ObjEq(h, lst[k], item) /\ \A j \in 1..(k - 1) : ~ObjEq(h, lst[j], item)
         IN  SubSeq(lst, 1, i - 1) \o SubSeq(lst, i + 1, Len(lst))

\* PylogixList.append for an object of the list's type
PylogixList_append(h, lst, obj, overwrite) ==
    IF InList(h, obj, lst) /\ overwrite THEN Append(ListRemove(h, lst, obj), obj)
    ELSE IF ~InList(h, obj, lst) THEN Append(lst, obj)
    ELSE lst

\* PylogixList.extend
RECURSIVE PylogixList_extend(_, _, _, _)
PylogixList_extend(h, lst, iterable, overwrite) ==
    IF iterable = <<>> THEN lst
    ELSE PylogixList_extend(h, PylogixList_append(h, lst, Head(iterable), overwrite),
                            Tail(iterable), overwrite)

\* PylogixList.by_name: the first element of that name, or None
by_name(h, lst, n) ==
    IF \E i \in 1..Len(lst) : h[lst[i]].name = n
    THEN lst[CHOOSE i \in 1..Len(lst) :
                 h[lst[i]].name = n /\ \A j \in 1..(i - 1) : h[lst[j]].name # n]
    ELSE None

\* PyLogixDependencies()
PyLogixDependencies ==
    [add_on_instructions |-> <<>>, datatypes |-> <<>>, modules |-> <<>>, programs |-> <<>>,
     tags |-> <<>>, program_tags |-> <<>>, tasks |-> <<>>]

Buckets == {"add_on_instructions", "datatypes", "modules", "programs", "tags",
            "program_tags", "tasks"}

\* PyLogixDependencies.safe_add_item
safe_add_item(h, my_list, item) ==
    IF ~InList(h, item, my_list) THEN Append(my_list, item) ELSE my_list

safe_add_all(h, list1, list2) == list1 \o list2

\* PyLogixDependencies.__safe_add__
RECURSIVE safe_add(_, _, _)
safe_add(h, list1, list2) ==
    IF list2 = <<>> THEN list1
    ELSE safe_add(h, safe_add_item(h, list1, Head(list2)), Tail(list2))

\* PyLogixDependencies.extend
extend(h, deps, other) == [b \in Buckets |-> safe_add(h, deps[b], other[b])]

(***************************************************************************)
(* Datatypes                                                               *)
(***************************************************************************)
\* the number of user-defined datatypes a project declares
MaxUdts == 3
\* the number of members a user-defined datatype declares
MaxMembers == 2
\* the number of times rebind is run on one controller
MaxRebinds == 2

DigitSeq == <<"1", "2", "3", "4", "5", "6", "7", "8", "9">>

\* U1, U2, ...: the names of the user-defined datatypes
UdtName(k) == <<"U", DigitSeq[k]>>

\* M1, M2, ...: the names of their members
MemberName(i) == <<"M", DigitSeq[i]>>

\* DataType.__init__
DataTypeInit(n, description, family, datatype_class, is_atomic, is_base_logix_instruction) ==
    [name |-> n, description |-> description,
     description_properties |-> DescriptionProperties,
     family |-> IF family # None THEN family[1] ELSE "NoFamily",
     datatype_class |-> IF datatype_class # None THEN datatype_class[1] ELSE "User",
     is_atomic |-> is_atomic, is_base_logix_instruction |-> is_base_logix_instruction,
     members |-> <<>>]

\* a member of a built-in datatype
BuiltinMember(n, meta, radix) == DataTypeMemberInit(n, meta, 0, radix, FALSE)

LOGIX_TIMER ==
    [DataTypeInit(Str_TIMER, <<>>, Some("None"), Some("Standard"), FALSE, TRUE)
        EXCEPT !.members =
            <<BuiltinMember(<<"P", "R", "E">>, Str_DINT, Some("Decimal")),
              BuiltinMember(<<"A", "C", "C">>, Str_DINT, Some("Decimal")),
              BuiltinMember(<<"E", "N">>, Str_BOOL, None),
              BuiltinMember(<<"T", "T">>, Str_BOOL, None),
              BuiltinMember(<<"D", "N">>, Str_BOOL, None)>>]

LOGIX_CONTROL ==
    [DataTypeInit(Str_CONTROL, <<>>, Some("None"), Some("Standard"), FALSE, TRUE)
        EXCEPT !.members =
            <<BuiltinMember(<<"L", "E", "N">>, Str_DINT, Some("Decimal")),
              BuiltinMember(<<"P", "O", "S">>, Str_DINT, Some("Decimal")),
              BuiltinMember(<<"E", "N">>, Str_BOOL, None),
              BuiltinMember(<<"E", "U">>, Str_BOOL, None),
              BuiltinMember(<<"D", "N">>, Str_BOOL, None),
              BuiltinMember(<<"E", "M">>, Str_BOOL, None),
              BuiltinMember(<<"E", "R">>, Str_BOOL, None),
              BuiltinMember(<<"U", "L">>, Str_BOOL, None),
              BuiltinMember(<<"I", "N">>, Str_BOOL, None),
              BuiltinMember(<<"F", "D">>, Str_BOOL, None)>>]

AtomicDataType(n) == DataTypeInit(n, <<>>, Some("None"), Some("Standard"), TRUE, FALSE)

ATOMIC_DATA_TYPES ==
    <<AtomicDataType(Str_BOOL), AtomicDataType(Str_BIT), AtomicDataType(Str_SINT),
      AtomicDataType(Str_USINT), AtomicDataType(Str_INT), AtomicDataType(Str_UINT),
      AtomicDataType(Str_DINT), AtomicDataType(Str_UDINT), AtomicDataType(Str_LINT),
      AtomicDataType(Str_REAL), LOGIX_TIMER, LOGIX_CONTROL>>

\* DataTypeList(): the built-in datatypes, shared by every list
DataTypeListInit == [k \in 1..Len(ATOMIC_DATA_TYPES) |-> Id("DataType", k)]

\* the user-defined datatypes parsed so far
UdtCount(h) == Cardinality(IdsOf(h, "DataType")) - Len(ATOMIC_DATA_TYPES)

\* the user-defined datatypes read so far for the controller c
UdtsOf(c) == Len(c.datatypes) - Len(ATOMIC_DATA_TYPES)

\* DataTypeMember.rebind
DataTypeMember_rebind(h, datatypes, m) ==
    IF m.datatype = None
    THEN [m EXCEPT !.datatype = by_name(h, datatypes, m.datatype_meta_name)]
    ELSE m

\* DataType.rebind
DataType_rebind(h, datatypes, d) ==
    LET obj == PyLogixObject_rebind(h[d])
    IN  [h EXCEPT ![d] =
            [obj EXCEPT !.members =
                [i \in 1..Len(obj.members) |->
                     DataTypeMember_rebind(h, datatypes, obj.members[i])]]]

\* DataTypeList.rebind
RECURSIVE DataTypeList_rebind(_, _, _)
DataTypeList_rebind(h, datatypes, todo) ==
    IF todo = <<>> THEN h
    ELSE DataTypeList_rebind(DataType_rebind(h, datatypes, Head(todo)), datatypes, Tail(todo))

\* the member filter of DataType.get_dependencies
IsDependantMember(h, m) ==
    /\ m.datatype # None
    /\ ~h[m.datatype].is_atomic
    /\ ~h[m.datatype].is_base_logix_instruction

\* the early return of DataType.get_dependencies
IsTerminal_atomic(obj) == obj.is_atomic

IsTerminal(obj) == obj.is_atomic \/ obj.is_base_logix_instruction

RECURSIVE DataType_get_dependencies(_, _, _)
RECURSIVE DataType_members_loop(_, _, _)

MemberClosure_none(h, d) == PyLogixDependencies

\* member.datatype.get_dependencies(), the call DataType.get_dependencies
\* recurses with
MemberClosure(h, d) == DataType_get_dependencies(h, d, FALSE)

\* the loop of DataType.get_dependencies over the dependant members
DataType_members_loop(h, members, dependencies) ==
    IF members = <<>> THEN dependencies
    ELSE LET md == Head(members).datatype
             added == IF ~InList(h, md, dependencies.datatypes)
                      THEN [dependencies EXCEPT !.datatypes = Append(@, md)]
                      ELSE dependencies
         IN  DataType_members_loop(h, Tail(members), extend(h, added, MemberClosure(h, md)))

\* DataType.get_dependencies
DataType_get_dependencies(h, d, include_root) ==
    IF IsTerminal(h[d]) THEN PyLogixDependencies
    ELSE LET root == IF include_root
                     THEN [PyLogixDependencies EXCEPT !.datatypes = safe_add_item(h, @, d)]
                     ELSE PyLogixDependencies
         IN  DataType_members_loop(
                 h, SelectSeq(h[d].members, LAMBDA m : IsDependantMember(h, m)), root)

(***************************************************************************)
(* Add-on instructions                                                     *)
(***************************************************************************)
\* the number of user-defined datatypes beside an add-on instruction
MaxAoiUdts == 2
\* the number of local tags, and of parameters, of an add-on instruction
MaxAoiTags == 1

\* T1, T2, ...: the names of tags
TagName(i) == <<"T", DigitSeq[i]>>

\* P1, P2, ...: the names of parameters
ParameterName(i) == <<"P", DigitSeq[i]>>

Str_AOI1 == <<"A", "O", "I", "1">>

\* AddOnInstructionTag.from_l5x_xml_node: the datatype is looked up on reading
AddOnInstructionTagRead(h, datatypes, n, meta) ==
    [name |-> n, description |-> <<>>, description_properties |-> DescriptionProperties,
     tag_type |-> "AddOnInstruction", datatype |-> by_name(h, datatypes, meta),
     datatype_meta_name |-> meta, alias_for |-> <<>>]

\* AddOnInstructionParameter.from_l5x_xml_node
AddOnInstructionParameterRead(h, datatypes, n, meta) ==
    [name |-> n, description |-> <<>>, description_properties |-> DescriptionProperties,
     datatype |-> by_name(h, datatypes, meta), datatype_meta_name |-> meta]

\* AddOnInstructionDefinition.__init__
AddOnInstructionDefinitionInit(n, description) ==
    [name |-> n, description |-> description,
     description_properties |-> DescriptionProperties,
     parameters |-> <<>>, tags |-> <<>>, routines |-> <<>>]

\* what a call of get_dependencies gives: a closure, or an exception
Returned(dependencies) == [raised |-> None, deps |-> dependencies]

Raised(exception) == [raised |-> Some(exception), deps |-> PyLogixDependencies]

\* AddOnInstructionTag.get_dependencies and
\* AddOnInstructionParameter.get_dependencies, for an element with a datatype
AoiElement_get_dependencies(h, element, include_root) ==
    DataType_get_dependencies(h, element.datatype, include_root)

RECURSIVE AoiElements_loop(_, _, _, _)
AoiElements_loop(h, elements, include_root, dependencies) ==
    IF elements = <<>> THEN dependencies
    ELSE AoiElements_loop(h, Tail(elements), include_root,
             extend(h, dependencies, AoiElement_get_dependencies(h, Head(elements), include_root)))

\* AddOnInstructionDefinition.get_dependencies: the local tags, then the
\* parameters; the first element without a datatype raises ValueError
AddOnInstructionDefinition_get_dependencies(h, a, include_root) ==
    LET root == IF include_root
                THEN [PyLogixDependencies EXCEPT
                         !.add_on_instructions = safe_add_item(h, @, a)]
                ELSE PyLogixDependencies
        elements == h[a].tags \o h[a].parameters
    IN  IF \E i \in 1..Len(elements) : elements[i].datatype = None
        THEN Raised("ValueError")
        ELSE Returned(AoiElements_loop(h, elements, include_root, root))

(***************************************************************************)
(* Tags, rungs, routines, programs and tasks                               *)
(***************************************************************************)
\* Tag.from_l5x_xml_node: the datatype is looked up on reading
TagRead(h, datatypes, n, description, tag_type, meta, alias_for) ==
    [name |-> n, description |-> description,
     description_properties |-> DescriptionProperties,
     tag_type |-> tag_type, datatype |-> by_name(h, datatypes, meta),
     datatype_meta_name |-> meta, alias_for |-> alias_for]

\* the body of Tag.rebind after super().rebind(), for the tag obj and the
\* tag alias_tag that by_name gave for its alias_for
TagResolveAlias(h, obj, alias_tag) ==
    IF obj.alias_for # <<>> /\ alias_tag # None
    THEN [obj EXCEPT !.datatype = h[alias_tag].datatype,
                     !.datatype_meta_name = h[alias_tag].datatype_meta_name]
    ELSE obj

\* Tag.rebind, with kwargs['tags'] the controller's tags
Tag_rebind(h, tags, t) ==
    [h EXCEPT ![t] =
        TagResolveAlias(h, PyLogixObject_rebind(@), by_name(h, tags, @.alias_for))]

\* PylogixList.rebind of a list of tags: one tag after the other
RECURSIVE TagList_rebind(_, _, _)
TagList_rebind(h, tags, todo) ==
    IF todo = <<>> THEN h
    ELSE TagList_rebind(Tag_rebind(h, tags, Head(todo)), tags, Tail(todo))

\* Rung.__init__; a rung's name is the empty string
RungInit(description, text, comment) ==
    [name |-> <<>>, description |-> description,
     description_properties |-> DescriptionProperties,
     text |-> text, comment |-> comment,
     tags |-> <<>>, program_tags |-> <<>>, add_on_instructions |-> <<>>]

\* the orders list(set(...)) can give the elements of a set in
Orders(S) == {f \in [1..Cardinality(S) -> S] : Range(f) = S}

\* the loop of Rung.from_l5x_xml_node over the tag names of the text: a
\* controller tag of the name, else a program tag of the name
RECURSIVE RungBindTags(_, _, _, _, _)
RungBindTags(h, tags, program_tags, metas, rung) ==
    IF metas = <<>> THEN rung
    ELSE LET tag == by_name(h, tags, Head(metas))
             program_tag == by_name(h, program_tags, Head(metas))
         IN  RungBindTags(h, tags, program_tags, Tail(metas),
                 IF tag # None
                 THEN [rung EXCEPT !.tags = PylogixList_append(h, @, tag, FALSE)]
                 ELSE IF program_tag # None
                 THEN [rung EXCEPT !.program_tags = PylogixList_append(h, @, program_tag, FALSE)]
                 ELSE rung)

\* the loop of Rung.from_l5x_xml_node over the mnemonics of the text
RECURSIVE RungBindInstructions(_, _, _, _)
RungBindInstructions(h, add_on_instructions, metas, rung) ==
    IF metas = <<>> THEN rung
    ELSE LET instr == by_name(h, add_on_instructions, Head(metas))
         IN  RungBindInstructions(h, add_on_instructions, Tail(metas),
                 IF instr # None
                 THEN [rung EXCEPT !.add_on_instructions = Append(@, instr)]
                 ELSE rung)

\* Rung.from_l5x_xml_node, for one order of each of the two mined lists
RungRead(h, c, program_tags, description, text, comment, tag_metas, instruction_metas) ==
    RungBindInstructions(h, c.add_on_instructions, instruction_metas,
        RungBindTags(h, c.tags, program_tags, tag_metas, RungInit(description, text, comment)))

\* the second loop of Rung.rebind: the controller tag a program tag of the
\* rung is an alias for joins the rung's tags
RECURSIVE RungBindAliases(_, _, _, _)
RungBindAliases(h, tags, aliases, rung) ==
    IF aliases = <<>> THEN rung
    ELSE LET ctrl_tag == by_name(h, tags, h[Head(aliases)].alias_for)
         IN  RungBindAliases(h, tags, Tail(aliases),
                 IF ctrl_tag = None THEN rung
                 ELSE [rung EXCEPT !.tags = PylogixList_append(h, @, ctrl_tag, FALSE)])

\* Rung.rebind; its first loop rebinds a local name only and changes nothing
Rung_rebind(h, tags, rung) ==
    RungBindAliases(h, tags,
                    SelectSeq(rung.program_tags, LAMBDA t : h[t].alias_for # <<>>),
                    PyLogixObject_rebind(rung))

\* Routine.__init__
RoutineInit(n, description) ==
    [name |-> n, description |-> description,
     description_properties |-> DescriptionProperties, rungs |-> <<>>]

\* Routine.rebind
Routine_rebind(h, tags, r) ==
    [h EXCEPT ![r] =
        [PyLogixObject_rebind(@) EXCEPT
            !.rungs = [i \in 1..Len(@) |-> Rung_rebind(h, tags, @[i])]]]

RECURSIVE RoutineList_rebind(_, _, _)
RoutineList_rebind(h, tags, todo) ==
    IF todo = <<>> THEN h
    ELSE RoutineList_rebind(Routine_rebind(h, tags, Head(todo)), tags, Tail(todo))

\* Program.__init__
ProgramInit(n, description) ==
    [name |-> n, description |-> description,
     description_properties |-> DescriptionProperties, generator_properties |-> <<>>,
     tags |-> <<>>, routines |-> <<>>]

Str_DRIVER == <<"D", "R", "I", "V", "E", "R">>

\* Program.driver_routines
driver_routines(h, p) ==
    SelectSeq(h[p].routines, LAMBDA r : h[r].description_properties.type = Some(Str_DRIVER))

\* the generator properties a driver routine gives: the property list of the
\* comment of its first rung that holds '@GENERATOR', else the empty list
GeneratorOf(h, r) ==
    LET lists == [i \in 1..Len(h[r].rungs) |->
                      property_list_from_string(h[r].rungs[i].comment, <<>>)]
        hits == SelectSeq(lists, LAMBDA l : Str_AtGENERATOR \in Range(l))
    IN  IF hits = <<>> THEN <<>> ELSE Head(hits)

\* the loop of Program.rebind over the routines
ProgramRoutines_rebind(h, tags, p) == RoutineList_rebind(h, tags, h[p].routines)

\* the loop of Program.rebind over the program's tags
ProgramTags_rebind(h, tags, p) == TagList_rebind(h, tags, h[p].tags)

\* the loop of Program.rebind over the driver routines: the last driver's
\* generator properties stay
GeneratorProperties(h, p, drivers) ==
    IF drivers = <<>> THEN h[p].generator_properties
    ELSE GeneratorOf(h, drivers[Len(drivers)])

StripAll(properties) == [x \in 1..Len(properties) |-> Strip(properties[x])]

\* the end of Program.rebind: the generator properties, stripped
ProgramGenerator_rebind(h, p) ==
    [h EXCEPT ![p].generator_properties =
                  StripAll(GeneratorProperties(h, p, driver_routines(h, p)))]

\* Program.rebind
Program_rebind(h, tags, p) ==
    ProgramGenerator_rebind(
        ProgramTags_rebind(
            ProgramRoutines_rebind([h EXCEPT ![p] = PyLogixObject_rebind(@)], tags, p),
            tags, p),
        p)

\* ProgramList.rebind
RECURSIVE ProgramList_rebind(_, _, _)
ProgramList_rebind(h, tags, todo) ==
    IF todo = <<>> THEN h
    ELSE ProgramList_rebind(Program_rebind(h, tags, Head(todo)), tags, Tail(todo))

\* Task.__init__
TaskInit(n, description) ==
    [name |-> n, description |-> description,
     description_properties |-> DescriptionProperties,
     scheduled_meta_programs |-> <<>>, scheduled_programs |-> <<>>]

\* the loop of Task.from_l5x_xml_node over the ScheduledProgram elements; a
\* name no program has gives None, which the list does not take
RECURSIVE TaskSchedule(_, _, _, _)
TaskSchedule(h, programs, names, task) ==
    IF names = <<>> THEN task
    ELSE LET prog == by_name(h, programs, Head(names))
         IN  TaskSchedule(h, programs, Tail(names),
                 [task EXCEPT
                     !.scheduled_programs =
                         IF prog = None THEN @ ELSE PylogixList_append(h, @, prog, FALSE),
                     !.scheduled_meta_programs = Append(@, Head(names))])

\* Task.rebind
Task_rebind(h, programs, t) ==
    [h EXCEPT ![t] =
        [PyLogixObject_rebind(@) EXCEPT
            !.scheduled_programs =
                SelectSeq(programs,
                          LAMBDA prog : h[prog].name \in Range(h[t].scheduled_meta_programs))]]

RECURSIVE TaskList_rebind(_, _, _)
TaskList_rebind(h, programs, todo) ==
    IF todo = <<>> THEN h
    ELSE TaskList_rebind(Task_rebind(h, programs, Head(todo)), programs, Tail(todo))

\* Tag.get_dependencies
Tag_get_dependencies(h, t, include_root) ==
    LET root == IF include_root
                THEN [PyLogixDependencies EXCEPT !.tags = safe_add_item(h, @, t)]
                ELSE PyLogixDependencies
    IN  IF h[t].datatype # None
        THEN extend(h, root, DataType_get_dependencies(h, h[t].datatype, TRUE))
        ELSE root

\* the two comprehensions of Rung.get_dependencies over the datatypes of tags
RECURSIVE ExtendWithTagTypes(_, _, _)
ExtendWithTagTypes(h, tags, dependencies) ==
    IF tags = <<>> THEN dependencies
    ELSE ExtendWithTagTypes(h, Tail(tags),
             extend(h, dependencies, DataType_get_dependencies(h, h[Head(tags)].datatype, TRUE)))

HasDependantType(h, t) ==
    /\ h[t].datatype # None
    /\ ~h[h[t].datatype].is_atomic
    /\ ~h[h[t].datatype].is_base_logix_instruction

\* Rung.get_dependencies
Rung_get_dependencies(h, rung) ==
    LET listed == [PyLogixDependencies EXCEPT
                      !.tags = safe_add(h, @, rung.tags),
                      !.program_tags = safe_add(h, @, rung.program_tags),
                      !.add_on_instructions = safe_add(h, @, rung.add_on_instructions)]
        typed == ExtendWithTagTypes(
                     h, SelectSeq(rung.tags, LAMBDA t : HasDependantType(h, t)), listed)
    IN  ExtendWithTagTypes(
            h, SelectSeq(rung.program_tags, LAMBDA t : HasDependantType(h, t)), typed)

\* Routine.get_dependencies
RECURSIVE Rungs_get_dependencies(_, _, _)
Rungs_get_dependencies(h, rungs, dependencies) ==
    IF rungs = <<>> THEN dependencies
    ELSE Rungs_get_dependencies(h, Tail(rungs),
             extend(h, dependencies, Rung_get_dependencies(h, Head(rungs))))

Routine_get_dependencies(h, r) == Rungs_get_dependencies(h, h[r].rungs, PyLogixDependencies)

RECURSIVE Routines_get_dependencies(_, _, _)
Routines_get_dependencies(h, routines, dependencies) ==
    IF routines = <<>> THEN dependencies
    ELSE Routines_get_dependencies(h, Tail(routines),
             extend(h, dependencies, Routine_get_dependencies(h, Head(routines))))

RECURSIVE Tags_get_dependencies(_, _, _)
Tags_get_dependencies(h, tags, dependencies) ==
    IF tags = <<>> THEN dependencies
    ELSE Tags_get_dependencies(h, Tail(tags),
             extend(h, dependencies, Tag_get_dependencies(h, Head(tags), FALSE)))

\* Program.get_dependencies
Program_get_dependencies(h, p, include_root) ==
    LET root == IF include_root
                THEN [PyLogixDependencies EXCEPT !.programs = safe_add_item(h, @, p)]
                ELSE PyLogixDependencies
    IN  Tags_get_dependencies(h, h[p].tags,
            Routines_get_dependencies(h, h[p].routines, root))

\* Task.get_dependencies
Task_get_dependencies(h, t, include_root) ==
    IF include_root THEN [PyLogixDependencies EXCEPT !.tasks = Append(@, t)]
    ELSE PyLogixDependencies

(***************************************************************************)
(* Controller                                                              *)
(***************************************************************************)
\* Controller.__init__
ControllerInit(n, description) ==
    [name |-> n, description |-> description,
     description_properties |-> DescriptionProperties,
     datatypes |-> DataTypeListInit, modules |-> <<>>, add_on_instructions |-> <<>>,
     tags |-> <<>>, programs |-> <<>>, tasks |-> <<>>]

Str_Ctrl == <<"C", "t", "r", "l">>

\* the member types of the k-th user-defined datatype: one atomic type, one
\* base instruction and the user-defined datatypes declared before it
DeclaredBefore ==
    [k \in 1..Len(DigitSeq) |-> {Str_DINT, Str_TIMER} \cup {UdtName(j) : j \in 1..(k - 1)}]

\* DataType.from_l5x_xml_node and the append of DataTypeList.from_l5x: the
\* next DataType element of the file, with its members
ParseDataType(maxUdts, memberTypes, descriptions) ==
    /\ rebinds = 0 /\ depsCall = <<>>
    /\ UdtsOf(controller) < maxUdts
    /\ \E n \in 0..MaxMembers, description \in descriptions :
          \E metas \in [1..n -> memberTypes[UdtsOf(controller) + 1]] :
             LET id == NewId(heap, "DataType")
                 obj == [DataTypeInit(UdtName(UdtsOf(controller) + 1), description,
                                      None, Some("User"), FALSE, FALSE)
                            EXCEPT !.members =
                                [i \in 1..n |->
                                     DataTypeMemberInit(MemberName(i), metas[i], 0, None, FALSE)]]
                 h1 == heap @@ (id :> obj)
             IN  /\ heap' = h1
                 /\ controller' =
                        [controller EXCEPT !.datatypes = PylogixList_append(h1, @, id, FALSE)]
    /\ UNCHANGED <<rebinds, depsCall, depsResult>>

\* the datatypes a tag or a parameter is declared with
DeclaredTypes(h) == {Str_DINT, Str_TIMER} \cup {UdtName(j) : j \in 1..UdtCount(h)}

\* AddOnInstructionDefinition.from_l5x_xml_node and the append of the list's
\* from_l5x: its parameters, then its local tags
ParseAddOnInstruction ==
    /\ rebinds = 0 /\ depsCall = <<>>
    /\ IdsOf(heap, "AddOnInstructionDefinition") = {}
    /\ \E np \in 0..MaxAoiTags, nt \in 0..MaxAoiTags :
          \E pmetas \in [1..np -> DeclaredTypes(heap)], tmetas \in [1..nt -> DeclaredTypes(heap)] :
             LET id == NewId(heap, "AddOnInstructionDefinition")
                 obj == [AddOnInstructionDefinitionInit(Str_AOI1, <<>>) EXCEPT
                            !.parameters =
                                [i \in 1..np |->
                                     AddOnInstructionParameterRead(
                                         heap, controller.datatypes, ParameterName(i), pmetas[i])],
                            !.tags =
                                [i \in 1..nt |->
                                     AddOnInstructionTagRead(
                                         heap, controller.datatypes, TagName(i), tmetas[i])]]
                 h1 == heap @@ (id :> obj)
             IN  /\ heap' = h1
                 /\ controller' =
                        [controller EXCEPT
                            !.add_on_instructions = PylogixList_append(h1, @, id, FALSE)]
    /\ UNCHANGED <<rebinds, depsCall, depsResult>>

\* at most this many tags are read for the controller
MaxTags == 3
\* at most this many tags are read for a program
MaxProgramTags == 1
\* at most this many rungs are read for a routine
MaxRungs == 1

\* the names the entities of the file carry
ProgramName(k) == <<"P", "G", DigitSeq[k]>>

RoutineName(k) == <<"R", DigitSeq[k]>>

TaskName(k) == <<"K", DigitSeq[k]>>

\* the heap after self.append(...) of a from_l5x loop: an object the list
\* refused is referenced from nowhere and is gone
Kept(h, h1, lst, lst1) == IF lst1 = lst THEN h ELSE h1

\* a tag element: a base tag of one of the datatypes, or an alias tag, which
\* carries AliasFor and no DataType attribute
TagElements(types, aliasTargets) ==
    {[tag_type |-> "Base", meta |-> m, alias_for |-> <<>>] : m \in types}
        \cup {[tag_type |-> "Alias", meta |-> <<>>, alias_for |-> a] : a \in aliasTargets}

\* the last program of the controller: the one whose element is being read
LastProgram(c) == c.programs[Len(c.programs)]

\* Tag.from_l5x_xml_node and the append of TagList.from_l5x: the next Tag
\* element of the controller, of one of the names
ParseTag(maxTags, names, types, aliasTargets, descriptions) ==
    /\ rebinds = 0 /\ depsCall = <<>>
    /\ controller.programs = <<>> /\ controller.tasks = <<>>
    /\ Len(controller.tags) < maxTags
    /\ \E n \in names, el \in TagElements(types, aliasTargets), description \in descriptions :
          \E h1 \in {heap @@ (NewId(heap, "Tag") :>
                                  TagRead(heap, controller.datatypes, n, description,
                                          el.tag_type, el.meta, el.alias_for))} :
             \E tags \in {PylogixList_append(h1, controller.tags, NewId(heap, "Tag"), FALSE)} :
                /\ heap' = Kept(heap, h1, controller.tags, tags)
                /\ controller' = [controller EXCEPT !.tags = tags]
    /\ UNCHANGED <<rebinds, depsCall, depsResult>>

\* Program.from_l5x_xml_node up to its tags, and the append of
\* ProgramList.from_l5x: the next Program element
ParseProgram(maxPrograms, descriptions) ==
    /\ rebinds = 0 /\ depsCall = <<>>
    /\ controller.tasks = <<>>
    /\ Len(controller.programs) < maxPrograms
    /\ \E description \in descriptions :
          LET id == NewId(heap, "Program")
              h1 == heap @@ (id :> ProgramInit(ProgramName(Len(controller.programs) + 1),
                                               description))
          IN  /\ heap' = h1
              /\ controller' =
                     [controller EXCEPT !.programs = PylogixList_append(h1, @, id, FALSE)]
    /\ UNCHANGED <<rebinds, depsCall, depsResult>>

\* the next Tag element of the program being read; the program's tags are
\* read before its routines
ParseProgramTag(maxProgramTags, names, types, aliasTargets) ==
    /\ rebinds = 0 /\ depsCall = <<>>
    /\ controller.programs # <<>> /\ controller.tasks = <<>>
    /\ heap[LastProgram(controller)].routines = <<>>
    /\ Len(heap[LastProgram(controller)].tags) < maxProgramTags
    /\ \E n \in names, el \in TagElements(types, aliasTargets) :
          \E h1 \in {heap @@ (NewId(heap, "Tag") :>
                                  TagRead(heap, controller.datatypes, n, <<>>,
                                          el.tag_type, el.meta, el.alias_for))} :
             \E tags \in {PylogixList_append(h1, heap[LastProgram(controller)].tags,
                                             NewId(heap, "Tag"), FALSE)} :
                heap' = Kept(heap, [h1 EXCEPT ![LastProgram(controller)].tags = tags],
                             heap[LastProgram(controller)].tags, tags)
    /\ UNCHANGED <<controller, rebinds, depsCall, depsResult>>

\* a Rung element: its text, its comment, and one order for each of the two
\* lists mined from the text
RungElements(texts, comments) ==
    UNION {{[text |-> t, comment |-> c, tag_metas |-> tm, instruction_metas |-> im] :
                c \in comments, tm \in Orders(get_tag_metas(t)),
                im \in Orders(get_instruction_metas(t))} : t \in texts}

\* Routine.from_l5x_xml_node for the next Routine element of the program
\* being read, with its rungs
ParseRoutine(maxRoutines, maxRungs, names, descriptions, texts, comments) ==
    /\ rebinds = 0 /\ depsCall = <<>>
    /\ controller.programs # <<>> /\ controller.tasks = <<>>
    /\ Len(heap[LastProgram(controller)].routines) < maxRoutines
    /\ \E rname \in names, n \in 0..maxRungs, description \in descriptions :
          \E els \in [1..n -> RungElements(texts, comments)] :
             \E h1 \in {heap @@ (NewId(heap, "Routine") :>
                     [RoutineInit(rname, description)
                         EXCEPT !.rungs =
                             [i \in 1..n |->
                                  RungRead(heap, controller,
                                           heap[LastProgram(controller)].tags, <<>>,
                                           els[i].text, els[i].comment, els[i].tag_metas,
                                           els[i].instruction_metas)]])} :
                \E routines \in {PylogixList_append(h1, heap[LastProgram(controller)].routines,
                                                    NewId(heap, "Routine"), FALSE)} :
                   heap' = Kept(heap, [h1 EXCEPT ![LastProgram(controller)].routines = routines],
                                heap[LastProgram(controller)].routines, routines)
    /\ UNCHANGED <<controller, rebinds, depsCall, depsResult>>

\* Task.from_l5x_xml_node and the append of TaskList.from_l5x: the next Task
\* element, with its ScheduledProgram names
ParseTask(maxTasks, schedules) ==
    /\ rebinds = 0 /\ depsCall = <<>>
    /\ Len(controller.tasks) < maxTasks
    /\ \E names \in schedules :
          LET id == NewId(heap, "Task")
              obj == TaskSchedule(heap, controller.programs, names,
                                  TaskInit(TaskName(Len(controller.tasks) + 1), <<>>))
              h1 == heap @@ (id :> obj)
          IN  /\ heap' = h1
              /\ controller' = [controller EXCEPT !.tasks = PylogixList_append(h1, @, id, FALSE)]
    /\ UNCHANGED <<rebinds, depsCall, depsResult>>

\* PylogixList.rebind of a list whose elements keep PyLogixObject.rebind
RECURSIVE PylogixList_rebind(_, _)
PylogixList_rebind(h, todo) ==
    IF todo = <<>> THEN h
    ELSE PylogixList_rebind([h EXCEPT ![Head(todo)] = PyLogixObject_rebind(@)], Tail(todo))

\* the list rebinds of Controller.rebind, in its order: datatypes, tags,
\* modules, programs, add-on instructions, tasks
ControllerLists_rebind(h, c) ==
    TaskList_rebind(
        PylogixList_rebind(
            ProgramList_rebind(
                PylogixList_rebind(
                    TagList_rebind(DataTypeList_rebind(h, c.datatypes, c.datatypes),
                                   c.tags, c.tags),
                    c.modules),
                c.tags, c.programs),
            c.add_on_instructions),
        c.programs, c.tasks)

\* Controller.rebind: the heap and the controller it leaves
Controller_rebind(h, c) ==
    [heap |-> ControllerLists_rebind(h, c), controller |-> PyLogixObject_rebind(c)]

\* controller.rebind()
Rebind(maxRebinds) ==
    /\ rebinds < maxRebinds /\ depsCall = <<>>
    /\ \E r \in {Controller_rebind(heap, controller)} :
          heap' = r.heap /\ controller' = r.controller
    /\ rebinds' = rebinds + 1
    /\ UNCHANGED <<depsCall, depsResult>>

\* entity.get_dependencies(include_root) of an entity of the heap, or of the
\* i-th rung of a routine r, <<"Rung", r, i>>
get_dependencies(h, e, include_root) ==
    CASE e[1] = "DataType" -> Returned(DataType_get_dependencies(h, e, include_root))
      [] e[1] = "AddOnInstructionDefinition" ->
             AddOnInstructionDefinition_get_dependencies(h, e, include_root)
      [] e[1] = "Tag" -> Returned(Tag_get_dependencies(h, e, include_root))
      [] e[1] = "Rung" -> Returned(Rung_get_dependencies(h, h[e[2]].rungs[e[3]]))
      [] e[1] = "Routine" -> Returned(Routine_get_dependencies(h, e))
      [] e[1] = "Program" -> Returned(Program_get_dependencies(h, e, include_root))
      [] e[1] = "Task" -> Returned(Task_get_dependencies(h, e, include_root))

GetDependencies(e, include_root) ==
    /\ depsCall = <<>>
    /\ depsCall' = <<e, include_root>>
    /\ depsResult' = <<get_dependencies(heap, e, include_root)>>
    /\ UNCHANGED <<heap, controller, rebinds>>

\* the buckets the code puts an entity of a kind in
BucketsOf(kind) ==
    CASE kind = "DataType" -> {"datatypes"}
      [] kind = "Tag" -> {"tags", "program_tags"}
      [] kind = "AddOnInstructionDefinition" -> {"add_on_instructions"}
      [] kind = "Program" -> {"programs"}
      [] kind = "Task" -> {"tasks"}
      [] OTHER -> {}

\* the rungs of the routines, as entities
Rungs(h) ==
    UNION {{<<"Rung", r, i>> : i \in 1..Len(h[r].rungs)} : r \in IdsOf(h, "Routine")}

\* the entities read from the file; the built-in datatypes are left out
UserEntities(h) == (DOMAIN h \ Range(DataTypeListInit)) \cup Rungs(h)

\* acc.safe_add_item(acc.<bucket>, item)
AccSafeAddItem(bucket, item) ==
    /\ depsCall = <<>>
    /\ acc' = [acc EXCEPT ![bucket] = safe_add_item(heap, @, item)]
    /\ accOp' = "safe_add_item"
    /\ UNCHANGED <<graphVars, pushed>>

\* acc.extend(e.get_dependencies(include_root))
AccExtend(e, include_root) ==
    /\ depsCall = <<>>
    /\ \E r \in {get_dependencies(heap, e, include_root)} :
          r.raised = None /\ acc' = extend(heap, acc, r.deps)
    /\ accOp' = "extend"
    /\ UNCHANGED <<graphVars, pushed>>

\* acc.extend(acc)
AccExtendSelf ==
    /\ depsCall = <<>>
    /\ acc' = extend(heap, acc, acc)
    /\ accOp' = "extend_self"
    /\ UNCHANGED <<graphVars, pushed>>

(***************************************************************************)
(* deepcopy and the propagation of a driver routine                        *)
(***************************************************************************)
\* the objects an object of the heap refers to
Refs(h, x) ==
    LET o == h[x]
    IN  CASE x[1] = "DataType" -> {o.members[i].datatype : i \in 1..Len(o.members)} \ {None}
          [] x[1] = "Tag" -> {o.datatype} \ {None}
          [] x[1] = "AddOnInstructionDefinition" ->
                 ({o.parameters[i].datatype : i \in 1..Len(o.parameters)}
                      \cup {o.tags[i].datatype : i \in 1..Len(o.tags)}) \ {None}
          [] x[1] = "Routine" ->
                 UNION {Range(o.rungs[i].tags) \cup Range(o.rungs[i].program_tags)
                            \cup Range(o.rungs[i].add_on_instructions) : i \in 1..Len(o.rungs)}
          [] x[1] = "Program" -> Range(o.tags) \cup Range(o.routines)
          [] x[1] = "Task" -> Range(o.scheduled_programs)

\* the objects deepcopy visits from the objects of S
RECURSIVE ReachFrom(_, _)
ReachFrom(h, S) ==
    LET T == S \cup UNION {Refs(h, x) : x \in S}
    IN  IF T = S THEN S ELSE ReachFrom(h, T)

\* the memo of a deepcopy: the new object made for each object visited
Memo(h, R) ==
    [x \in R |-> Id(x[1], Cardinality(IdsOf(h, x[1]))
                              + Cardinality({y \in R : y[1] = x[1] /\ y[2] <= x[2]}))]

\* a reference of the original, in the copy
CopyRef(memo, v) == IF v = None THEN None ELSE memo[v]

CopyRefs(memo, lst) == [i \in 1..Len(lst) |-> memo[lst[i]]]

\* PyLogixObject.__deepcopy__ for the object x: every attribute is copied,
\* a reference becomes the reference to the copy
CopyObject(h, memo, x) ==
    LET o == h[x]
    IN  CASE x[1] = "DataType" ->
                 [o EXCEPT !.members =
                     [i \in 1..Len(o.members) |->
                          [o.members[i] EXCEPT !.datatype = CopyRef(memo, @)]]]
          [] x[1] = "Tag" -> [o EXCEPT !.datatype = CopyRef(memo, @)]
          [] x[1] = "AddOnInstructionDefinition" ->
                 [o EXCEPT !.parameters =
                               [i \in 1..Len(o.parameters) |->
                                    [o.parameters[i] EXCEPT !.datatype = CopyRef(memo, @)]],
                           !.tags =
                               [i \in 1..Len(o.tags) |->
                                    [o.tags[i] EXCEPT !.datatype = CopyRef(memo, @)]]]
          [] x[1] = "Routine" ->
                 [o EXCEPT !.rungs =
                     [i \in 1..Len(o.rungs) |->
                          [o.rungs[i] EXCEPT
                              !.tags = CopyRefs(memo, @),
                              !.program_tags = CopyRefs(memo, @),
                              !.add_on_instructions = CopyRefs(memo, @)]]]
          [] x[1] = "Program" ->
                 [o EXCEPT !.tags = CopyRefs(memo, @), !.routines = CopyRefs(memo, @)]
          [] x[1] = "Task" -> [o EXCEPT !.scheduled_programs = CopyRefs(memo, @)]

\* deepcopy(x): the heap with the copies in it, and the copy of x
CopyWith(h, x, memo) ==
    [heap |-> h @@ [y \in {memo[z] : z \in DOMAIN memo} |->
                        CopyObject(h, memo, CHOOSE z \in DOMAIN memo : memo[z] = y)],
     copy |-> memo[x]]

deepcopy(h, x) == CopyWith(h, x, Memo(h, ReachFrom(h, {x})))

\* the name setter refuses the value
IllegalName(value) == \E x \in bad_vals : HasChar(value, x)

\* the loop over rung.tags of every rung of the clone: tag.name = 
\* tag.name.replace(old, new), until a name is refused
RECURSIVE RenameTags(_, _, _, _)
RenameTags(st, tags, old, new) ==
    IF tags = <<>> \/ st.raised THEN st
    ELSE LET value == Replace(st.heap[Head(tags)].name, old, new)
         IN  RenameTags(
                 IF IllegalName(value) THEN [st EXCEPT !.raised = TRUE]
                 ELSE [st EXCEPT !.heap[Head(tags)].name =
                                     IF on_new_name(value) THEN value ELSE @],
                 Tail(tags), old, new)

\* the tags the loops visit, rung by rung
RECURSIVE RungTags(_)
RungTags(rungs) == IF rungs = <<>> THEN <<>> ELSE Head(rungs).tags \o RungTags(Tail(rungs))

\* the two assignments to new_routine.name and the loop over its rungs, for
\* dc the deep copy: the heap they leave, or the ValueError of a refused name
RenameClone(dc, name_split, other_name_split) ==
    LET name1 == Replace(dc.heap[dc.copy].name, name_split[1], other_name_split[1])
        name2 == Replace(IF on_new_name(name1) THEN name1 ELSE dc.heap[dc.copy].name,
                         name_split[2], other_name_split[2])
    IN  IF IllegalName(name1) \/ IllegalName(name2) THEN [heap |-> dc.heap, raised |-> TRUE]
        ELSE RenameTags(
                 [heap |-> [dc.heap EXCEPT
                               ![dc.copy].name = IF on_new_name(name2) THEN name2 ELSE name1,
                               ![dc.copy].rungs =
                                   [i \in 1..Len(@) |->
                                        [@[i] EXCEPT !.text =
                                             Replace(@, name_split[2], other_name_split[2])]]],
                  raised |-> FALSE],
                 RungTags(dc.heap[dc.copy].rungs), name_split[2], other_name_split[2])

\* other_prog.routines.append(new_routine) and
\* dependencies.extend(new_routine.get_dependencies())
PlaceClone(st, h, other_prog, new_routine, update) ==
    [heap |-> h,
     dependencies |-> extend(h, st.dependencies, Routine_get_dependencies(h, new_routine)),
     raised |-> FALSE,
     updates |-> Append(st.updates, update @@ [clone |-> new_routine])]

\* what one entry leaves, for h1 the heap without the target and renamed
\* the renamed deep copy. After a ValueError the clone is referenced from
\* nowhere.
PushRenamed(st, h1, other_prog, new_routine, update, renamed) ==
    IF renamed.raised
    THEN [heap |-> h1, dependencies |-> st.dependencies, raised |-> TRUE,
          updates |-> Append(st.updates, update @@ [clone |-> None])]
    ELSE PlaceClone(st,
                    [renamed.heap EXCEPT
                        ![other_prog].routines =
                            PylogixList_append(renamed.heap, @, new_routine, FALSE)],
                    other_prog, new_routine, update)

\* the deep copy of the driver and its renaming
PushCopy(st, h1, other_prog, dc, update) ==
    PushRenamed(st, h1, other_prog, dc.copy, update,
                RenameClone(dc, update.name_split, update.other_name_split))

\* the removal of the target
PushWithout(st, h1, routine, other_prog, update) ==
    PushCopy(st, h1, other_prog, deepcopy(h1, routine), update)

\* one entry of routine_updates: the target goes, a deep copy of the driver
\* is renamed for the target and takes its place
PushEntry(st, routine, other_prog, target) ==
    PushWithout(st,
                [st.heap EXCEPT ![other_prog].routines = ListRemove(st.heap, @, target)],
                routine, other_prog,
                [name_split |-> Split(st.heap[routine].name, "_"),
                 other_name_split |-> Split(st.heap[target].name, "_"),
                 target |-> target])

RECURSIVE PushEntries(_, _, _, _)
PushEntries(st, routine, other_prog, targets) ==
    IF targets = <<>> \/ st.raised THEN st
    ELSE PushEntries(PushEntry(st, routine, other_prog, Head(targets)),
                     routine, other_prog, Tail(targets))

\* Program.__push_driver_routine__
push_driver_routine(h, routine, other_prog) ==
    LET split == Split(h[routine].name, "_")
        start == [heap |-> h, dependencies |-> PyLogixDependencies, raised |-> FALSE,
                  updates |-> <<>>]
        routine_updates ==
            SelectSeq(h[other_prog].routines,
                      LAMBDA r : /\ Len(Split(h[r].name, "_")) >= 3
                                 /\ SubSeq(split, 3, Len(split))
                                        = SubSeq(Split(h[r].name, "_"), 3,
                                                 Len(Split(h[r].name, "_"))))
    IN  IF Len(split) < 3 THEN [start EXCEPT !.raised = TRUE]
        ELSE PushEntries(start, routine, other_prog, routine_updates)

\* Program.__push_driver_routine__(routine, other_prog)
PushDriverRoutine(routine, other_prog) ==
    /\ pushed = <<>> /\ depsCall = <<>>
    /\ \E r \in {push_driver_routine(heap, routine, other_prog)} :
          /\ heap' = r.heap
          /\ pushed' = <<[routine |-> routine, other_prog |-> other_prog,
                          raised |-> r.raised, updates |-> r.updates,
                          dependencies |-> r.dependencies]>>
    /\ UNCHANGED <<controller, rebinds, depsCall, depsResult, accVars>>

(***************************************************************************)
(* Propagation of routines and programs                                    *)
(***************************************************************************)
\* the length of the common run of a from i and b from j, inside a[..ahi]
\* and b[..bhi]
RECURSIVE CommonRun(_, _, _, _, _, _)
CommonRun(a, b, i, j, ahi, bhi) ==
    IF i > ahi \/ j > bhi \/ a[i] # b[j] THEN 0
    ELSE 1 + CommonRun(a, b, i + 1, j + 1, ahi, bhi)

\* of the blocks of that size, the one that starts first in a, and of those
\* the one that starts first in b
LongestOf(runs, size) ==
    LET starts == {p \in DOMAIN runs : runs[p] = size}
        i == CHOOSE x \in {p[1] : p \in starts} : \A p \in starts : x <= p[1]
        j == CHOOSE y \in {p[2] : p \in {q \in starts : q[1] = i}} :
                 \A p \in {q \in starts : q[1] = i} : y <= p[2]
    IN  [a |-> i, b |-> j, size |-> size]

LongestRun(runs) == CHOOSE k \in {runs[p] : p \in DOMAIN runs} : \A p \in DOMAIN runs : runs[p] <= k

\* SequenceMatcher.find_longest_match without junk, on a[alo..ahi] and
\* b[blo..bhi] (both ends included, both ranges non-empty)
find_longest_match(a, b, alo, ahi, blo, bhi) ==
    LongestOf([p \in (alo..ahi) \X (blo..bhi) |-> CommonRun(a, b, p[1], p[2], ahi, bhi)],
              LongestRun([p \in (alo..ahi) \X (blo..bhi) |->
                              CommonRun(a, b, p[1], p[2], ahi, bhi)]))

\* the sum of the sizes of SequenceMatcher.get_matching_blocks: the longest
\* block, then the same to its left and to its right
RECURSIVE Matches(_, _, _, _, _, _)
RECURSIVE MatchesAround(_, _, _, _, _, _, _)
MatchesAround(a, b, alo, ahi, blo, bhi, block) ==
    IF block.size = 0 THEN 0
    ELSE block.size + Matches(a, b, alo, block.a - 1, blo, block.b - 1)
                    + Matches(a, b, block.a + block.size, ahi, block.b + block.size, bhi)

Matches(a, b, alo, ahi, blo, bhi) ==
    IF alo > ahi \/ blo > bhi THEN 0
    ELSE MatchesAround(a, b, alo, ahi, blo, bhi, find_longest_match(a, b, alo, ahi, blo, bhi))

\* SequenceMatcher(None, a, b).ratio() as the fraction 2.0 * matches / length
ratio(a, b) ==
    IF Len(a) + Len(b) = 0 THEN [num |-> 1, den |-> 1]
    ELSE [num |-> 2 * Matches(a, b, 1, Len(a), 1, Len(b)), den |-> Len(a) + Len(b)]

\* r >= similarity_gain, for two fractions
AtLeast(r, similarity_gain) == r.num * similarity_gain.den >= similarity_gain.num * r.den

\* the default of similarity_gain, 0.95
DefaultGain == [num |-> 19, den |-> 20]

\* the target_routine of Program.__push_routine__
TargetRoutine(h, routine, other_program, use_similarity_finding, similarity_gain) ==
    IF use_similarity_finding
    THEN LET close == SelectSeq(h[other_program].routines,
                                LAMBDA r : AtLeast(ratio(h[routine].name, h[r].name),
                                                   similarity_gain))
         IN  IF close = <<>> THEN None ELSE Head(close)
    ELSE by_name(h, h[other_program].routines, h[routine].name)

\* the end of Program.__push_routine__: the target goes, the routine is
\* appended and the program tags it depends on are added
PushOver(h, routine, other_program, target_routine, dependencies) ==
    [heap |-> [h EXCEPT
                  ![other_program].routines =
                      PylogixList_append(h,
                          IF target_routine # None /\ InList(h, target_routine, @)
                          THEN ListRemove(h, @, target_routine) ELSE @,
                          routine, FALSE),
                  ![other_program].tags =
                      PylogixList_extend(h, @, dependencies.program_tags, FALSE)],
     dependencies |-> dependencies]

\* Program.__push_routine__
push_routine(h, routine, other_program, use_similarity_finding, similarity_gain) ==
    IF routine = None THEN [heap |-> h, dependencies |-> PyLogixDependencies]
    ELSE PushOver(h, routine, other_program,
                  TargetRoutine(h, routine, other_program, use_similarity_finding,
                                similarity_gain),
                  Routine_get_dependencies(h, routine))

\* Program.__push_routine__(routine, other_program, use_similarity_finding,
\* similarity_gain)
PushRoutine(routine, other_program, use_similarity_finding, similarity_gain) ==
    /\ merge = <<>> /\ depsCall = <<>>
    /\ \E r \in {push_routine(heap, routine, other_program, use_similarity_finding,
                             similarity_gain)} :
          /\ heap' = r.heap
          /\ merge' = <<[op |-> "push_routine", routine |-> routine,
                         other_program |-> other_program,
                         use_similarity_finding |-> use_similarity_finding,
                         similarity_gain |-> similarity_gain,
                         dependencies |-> r.dependencies]>>
    /\ UNCHANGED <<controller, rebinds, depsCall, depsResult, accVars, pushed, other_obj>>

Str_MAIN == <<"M", "A", "I", "N">>

Str_INTERNAL == <<"I", "N", "T", "E", "R", "N", "A", "L">>

Str_DEVICE == <<"D", "E", "V", "I", "C", "E">>

\* Program.main_routine
main_routine(h, p) ==
    LET mains == SelectSeq(h[p].routines,
                           LAMBDA r : h[r].description_properties.type = Some(Str_MAIN))
    IN  IF mains = <<>> THEN None ELSE Head(mains)

\* Program.internal_routines
internal_routines(h, p) ==
    SelectSeq(h[p].routines, LAMBDA r : h[r].description_properties.type = Some(Str_INTERNAL))

\* dependencies.extend(...) of what a call of __push_routine__ gave
AfterPushRoutine(st, r) ==
    [st EXCEPT !.heap = r.heap,
               !.dependencies = extend(r.heap, @, r.dependencies)]

\* dependencies.extend(...) of what a call of __push_driver_routine__ gave,
\* or the ValueError that call raised, which nothing catches
AfterPushDriver(st, driver, r) ==
    IF r.raised
    THEN [st EXCEPT !.heap = r.heap,
                    !.raised = Some([exception |-> "ValueError", routine |-> driver])]
    ELSE [st EXCEPT !.heap = r.heap,
                    !.dependencies = extend(r.heap, @, r.dependencies)]

\* the push of the main routine in Program.push_updates
PushMain(st, p, other_prog) ==
    AfterPushRoutine(st, push_routine(st.heap, main_routine(st.heap, p), other_prog, FALSE,
                                      DefaultGain))

\* the loop of Program.push_updates over the driver routines
RECURSIVE PushDrivers(_, _, _)
PushDrivers(st, drivers, other_prog) ==
    IF drivers = <<>> \/ st.raised # None THEN st
    ELSE PushDrivers(AfterPushDriver(st, Head(drivers),
                                     push_driver_routine(st.heap, Head(drivers), other_prog)),
                     Tail(drivers), other_prog)

PushDriversOf(st, p, other_prog) == PushDrivers(st, driver_routines(st.heap, p), other_prog)

\* the loop of Program.push_updates over the internal routines
RECURSIVE PushInternals(_, _, _, _, _)
PushInternals(st, internals, other_prog, use_similarity_finding, similarity_gain) ==
    IF internals = <<>> \/ st.raised # None THEN st
    ELSE PushInternals(AfterPushRoutine(st, push_routine(st.heap, Head(internals), other_prog,
                                                         use_similarity_finding,
                                                         similarity_gain)),
                       Tail(internals), other_prog, use_similarity_finding, similarity_gain)

PushInternalsOf(st, p, other_prog, use_similarity_finding, similarity_gain) ==
    PushInternals(st,
                  IF st.heap[p].description_properties.type = Some(Str_DEVICE) THEN <<>>
                  ELSE internal_routines(st.heap, p),
                  other_prog, use_similarity_finding, similarity_gain)

\* Program.push_updates: the heap it leaves and the dependencies it returns,
\* or the exception it raises
Program_push_updates(h, p, other_prog, use_similarity_finding, similarity_gain) ==
    PushInternalsOf(
        PushDriversOf(
            PushMain([heap |-> h, dependencies |-> Program_get_dependencies(h, p, FALSE),
                      raised |-> None],
                     p, other_prog),
            p, other_prog),
        p, other_prog, use_similarity_finding, similarity_gain)

\* prog.push_updates(other_prog)
ProgramPushUpdates(p, other_prog) ==
    /\ merge = <<>> /\ depsCall = <<>>
    /\ \E r \in {Program_push_updates(heap, p, other_prog, FALSE, DefaultGain)} :
          /\ heap' = r.heap
          /\ merge' = <<[op |-> "program_push_updates", prog |-> p,
                         other_prog |-> other_prog, raised |-> r.raised,
                         dependencies |-> r.dependencies]>>
    /\ UNCHANGED <<controller, rebinds, depsCall, depsResult, accVars, pushed, other_obj>>

\* the truth value Python gives a role: None and the empty string are false
Falsy(v) == v = None \/ v = Some(<<>>)

\* the tests of the loops of ProgramList.push_updates for one pair of programs
RolesMatch(h, prog, other_prog) ==
    /\ ~Falsy(h[prog].description_properties.type)
    /\ ~Falsy(h[other_prog].description_properties.type)
    /\ \/ h[prog].description_properties.type = h[other_prog].description_properties.type
       \/ h[prog].description_properties.type = Some(Str_DEVICE)

\* other_prog.description = prog.description, for programs of one role
Described(h, prog, other_prog) ==
    IF h[prog].description_properties.type = h[other_prog].description_properties.type
    THEN [h EXCEPT ![other_prog].description = h[prog].description]
    ELSE h

\* dependencies.extend(...) of what prog.push_updates(other_prog) gave, or
\* the exception that call raised, which nothing catches
AfterProgramPush(st, prog, other_prog, r) ==
    [heap |-> r.heap,
     dependencies |-> IF r.raised = None
                      THEN extend(r.heap, st.dependencies, r.dependencies)
                      ELSE st.dependencies,
     raised |-> r.raised,
     pushes |-> Append(st.pushes, <<prog, other_prog>>)]

\* the body of the loops of ProgramList.push_updates for a matching pair
PushPair(st, prog, other_prog) ==
    AfterProgramPush(st, prog, other_prog,
                     Program_push_updates(Described(st.heap, prog, other_prog), prog,
                                          other_prog, TRUE, DefaultGain))

\* the pairs the two loops of ProgramList.push_updates visit, in their order
AllPairs(self_list, other_list) ==
    [k \in 1..(Len(self_list) * Len(other_list)) |->
         <<self_list[((k - 1) \div Len(other_list)) + 1],
           other_list[((k - 1) % Len(other_list)) + 1]>>]

RECURSIVE PushPairs(_, _)
PushPairs(st, pairs) ==
    IF pairs = <<>> \/ st.raised # None THEN st
    ELSE PushPairs(IF RolesMatch(st.heap, Head(pairs)[1], Head(pairs)[2])
                   THEN PushPair(st, Head(pairs)[1], Head(pairs)[2])
                   ELSE st,
                   Tail(pairs))

\* ProgramList.push_updates: the heap it leaves, the dependencies it returns
\* and the pairs it called Program.push_updates for, or the exception raised
ProgramList_push_updates(h, self_list, other_list) ==
    PushPairs([heap |-> h, dependencies |-> PyLogixDependencies, raised |-> None,
               pushes |-> <<>>],
              AllPairs(self_list, other_list))

\* a second file is read with Controller.from_l5x: the controller read and
\* rebound so far is the one updates are pushed to
SecondController ==
    /\ other_obj = <<>> /\ rebinds = 1 /\ merge = <<>> /\ depsCall = <<>>
    /\ other_obj' = <<controller>>
    /\ controller' = ControllerInit(Str_Ctrl, <<>>)
    /\ rebinds' = 0
    /\ UNCHANGED <<heap, depsCall, depsResult, accVars, pushed, merge>>

\* self.programs.push_updates(other_obj.programs)
ProgramListPushUpdates ==
    /\ merge = <<>> /\ depsCall = <<>> /\ other_obj # <<>>
    /\ \E r \in {ProgramList_push_updates(heap, controller.programs, other_obj[1].programs)} :
          /\ heap' = r.heap
          /\ merge' = <<[op |-> "programs_push_updates", raised |-> r.raised,
                         dependencies |-> r.dependencies, pushes |-> r.pushes]>>
    /\ UNCHANGED <<controller, rebinds, depsCall, depsResult, accVars, pushed, other_obj>>

\* the comprehension of Controller.resolve_dependencies over the datatypes:
\* editable is None, False or True
NotEditable(h, datatypes) ==
    SelectSeq(datatypes, LAMBDA d : h[d].description_properties.editable # Some(TRUE))

\* the extends of Controller.resolve_dependencies, all with overwrite
ExtendLists(h, c, dependencies) ==
    [c EXCEPT
        !.add_on_instructions = PylogixList_extend(h, @, dependencies.add_on_instructions, TRUE),
        !.datatypes = PylogixList_extend(h, @, NotEditable(h, dependencies.datatypes), TRUE),
        !.modules = PylogixList_extend(h, @, dependencies.modules, TRUE),
        !.programs = PylogixList_extend(h, @, dependencies.programs, TRUE),
        !.tags = PylogixList_extend(h, @, dependencies.tags, TRUE),
        !.tasks = PylogixList_extend(h, @, dependencies.tasks, TRUE)]

\* the tag Controller.__resolve_tag_aliases__ makes from a copy of an alias
\* tag: a base tag of the alias's target name
AliasTarget(h, datatypes, tag) ==
    [h[tag] EXCEPT !.alias_for = <<>>,
                   !.name = IF on_new_name(h[tag].alias_for) THEN h[tag].alias_for ELSE @,
                   !.tag_type = "Base",
                   !.datatype = by_name(h, datatypes, h[tag].datatype_meta_name)]

\* self.tags.append(new_tag, True)
WithTag(st, h1, new_tag) ==
    [st EXCEPT !.heap = h1,
               !.controller.tags = PylogixList_append(h1, @, new_tag, TRUE)]

\* the body of the loop of Controller.__resolve_tag_aliases__, unless the
\* name setter refuses the name
ResolveAlias(st, tag) ==
    IF IllegalName(st.heap[tag].alias_for)
    THEN [st EXCEPT !.raised = Some([exception |-> "ValueError", tag |-> tag])]
    ELSE WithTag(st,
                 st.heap @@ (NewId(st.heap, "Tag") :>
                                 AliasTarget(st.heap, st.controller.datatypes, tag)),
                 NewId(st.heap, "Tag"))

\* Controller.__resolve_tag_aliases__
RECURSIVE resolve_tag_aliases(_, _)
resolve_tag_aliases(st, tags) ==
    IF tags = <<>> \/ st.raised # None THEN st
    ELSE resolve_tag_aliases(
             IF st.heap[Head(tags)].alias_for # <<>> THEN ResolveAlias(st, Head(tags)) ELSE st,
             Tail(tags))

\* self.rebind() at the end of Controller.resolve_dependencies
ReboundAfter(st, r) == [st EXCEPT !.heap = r.heap, !.controller = r.controller]

ReboundUnlessRaised(st) ==
    IF st.raised # None THEN st
    ELSE ReboundAfter(st, Controller_rebind(st.heap, st.controller))

\* Controller.resolve_dependencies of the controller c
resolve_dependencies(h, c, dependencies) ==
    ReboundUnlessRaised(
        resolve_tag_aliases([heap |-> h, controller |-> ExtendLists(h, c, dependencies),
                             raised |-> None, dependencies |-> dependencies],
                            dependencies.tags))

\* other_obj.resolve_dependencies(...) of what self.programs.push_updates gave
AfterProgramsPush(other, r) ==
    IF r.raised # None
    THEN [heap |-> r.heap, controller |-> other, raised |-> r.raised,
          dependencies |-> r.dependencies]
    ELSE resolve_dependencies(r.heap, other, r.dependencies)

\* Controller.push_updates: the heap and the other controller it leaves
Controller_push_updates(h, c, other) ==
    AfterProgramsPush(other, ProgramList_push_updates(h, c.programs, other.programs))

\* controller.push_updates(other_obj)
ControllerPushUpdates ==
    /\ merge = <<>> /\ depsCall = <<>> /\ other_obj # <<>>
    /\ \E r \in {Controller_push_updates(heap, controller, other_obj[1])} :
          /\ heap' = r.heap
          /\ other_obj' = <<r.controller>>
          /\ merge' = <<[op |-> "controller_push_updates", raised |-> r.raised,
                         dependencies |-> r.dependencies]>>
    /\ UNCHANGED <<controller, rebinds, depsCall, depsResult, accVars, pushed>>

\* PylogixList.remove
PylogixList_remove(h, lst, obj) == IF InList(h, obj, lst) THEN ListRemove(h, lst, obj) ELSE lst

\* Tag.rename_strings, once the name setter has taken the new name
Tag_rename_strings(obj, old, new) ==
    [obj EXCEPT !.name = IF @ # <<>> /\ on_new_name(Replace(@, old, new))
                         THEN Replace(@, old, new) ELSE @,
                !.description = IF @ # <<>> THEN Replace(@, old, new) ELSE @,
                !.alias_for = IF @ # <<>> THEN Replace(@, old, new) ELSE @]

\* PylogixList.rename_strings of a list of tags: one tag after the other,
\* until the name setter refuses a name
RECURSIVE TagList_rename_strings(_, _, _, _)
TagList_rename_strings(st, todo, old, new) ==
    IF todo = <<>> \/ st.raised THEN st
    ELSE TagList_rename_strings(
             IF st.heap[Head(todo)].name # <<>>
                    /\ IllegalName(Replace(st.heap[Head(todo)].name, old, new))
             THEN [st EXCEPT !.raised = TRUE]
             ELSE [st EXCEPT !.heap[Head(todo)] = Tag_rename_strings(@, old, new)],
             Tail(todo), old, new)

\* controller.tags.rename_strings(old, new)
RenameStrings(olds, news) ==
    /\ depsCall = <<>>
    /\ \E old \in olds, new \in news :
          \E r \in {TagList_rename_strings([heap |-> heap, raised |-> FALSE],
                                           controller.tags, old, new)} :
             heap' = r.heap
    /\ UNCHANGED <<controller, rebinds, depsCall, depsResult>>

\* controller.tags.remove(tag) for a tag of the list
RemoveTag ==
    /\ depsCall = <<>>
    /\ \E i \in 1..Len(controller.tags) :
          controller' = [controller EXCEPT !.tags = PylogixList_remove(heap, @, @[i])]
    /\ UNCHANGED <<heap, rebinds, depsCall, depsResult>>

\* controller.tags.extend([Tag(name), ...], overwrite) for new base tags
ExtendTags(maxObjects, names) ==
    /\ depsCall = <<>>
    /\ \E n \in 1..2, overwrite \in BOOLEAN :
          \E ns \in [1..n -> names] :
             /\ Cardinality(IdsOf(heap, "Tag")) + n <= maxObjects
             /\ \E h1 \in {heap @@ [id \in {Id("Tag", Cardinality(IdsOf(heap, "Tag")) + i) :
                                                i \in 1..n} |->
                                        TagRead(heap, controller.datatypes,
                                                ns[id[2] - Cardinality(IdsOf(heap, "Tag"))],
                                                <<>>, "Base", Str_DINT, <<>>)]} :
                   /\ heap' = h1
                   /\ controller' =
                          [controller EXCEPT
                              !.tags = PylogixList_extend(
                                           h1, @,
                                           [i \in 1..n |->
                                                Id("Tag", Cardinality(IdsOf(heap, "Tag")) + i)],
                                           overwrite)]
    /\ UNCHANGED <<rebinds, depsCall, depsResult>>

\* other_obj.tags.rename_strings(old, new), once updates were pushed
RenameStringsOfOther(olds, news) ==
    /\ depsCall = <<>> /\ other_obj # <<>> /\ merge # <<>> /\ merge[1].raised = None
    /\ \E old \in olds, new \in news :
          \E r \in {TagList_rename_strings([heap |-> heap, raised |-> FALSE],
                                           other_obj[1].tags, old, new)} :
             heap' = r.heap
    /\ UNCHANGED <<controller, rebinds, depsCall, depsResult, accVars, pushed, other_obj, merge>>

\* other_obj.rebind(), once updates were pushed
RebindOther ==
    /\ depsCall = <<>> /\ other_obj # <<>> /\ merge # <<>> /\ merge[1].raised = None
    /\ \E r \in {Controller_rebind(heap, other_obj[1])} :
          heap' = r.heap /\ other_obj' = [other_obj EXCEPT ![1] = r.controller]
    /\ UNCHANGED <<controller, rebinds, depsCall, depsResult, accVars, pushed, merge>>

\* one more file is read with Controller.from_l5x: the controller read and
\* rebound so far joins those updates are pushed to
AnotherController(maxOthers) ==
    /\ Len(other_obj) < maxOthers /\ rebinds = 1 /\ merge = <<>> /\ depsCall = <<>>
    /\ other_obj' = Append(other_obj, controller)
    /\ controller' = ControllerInit(Str_Ctrl, <<>>)
    /\ rebinds' = 0
    /\ UNCHANGED <<heap, depsCall, depsResult, accVars, pushed, merge>>

\* the targets updates were pushed to so far
Merged == IF merge = <<>> THEN {} ELSE merge[1].merged

\* controller.push_updates(other_obj[k]), once for each target
PushUpdatesTo(k) ==
    /\ depsCall = <<>> /\ k \in 1..Len(other_obj) /\ k \notin Merged
    /\ merge # <<>> => merge[1].raised = None
    /\ \E r \in {Controller_push_updates(heap, controller, other_obj[k])} :
          /\ heap' = r.heap
          /\ other_obj' = [other_obj EXCEPT ![k] = r.controller]
          /\ merge' = <<[op |-> "controller_push_updates", raised |-> r.raised,
                         dependencies |-> r.dependencies, target |-> k,
                         merged |-> Merged \cup {k}]>>
    /\ UNCHANGED <<controller, rebinds, depsCall, depsResult, accVars, pushed>>

(***************************************************************************)
(* Tag data                                                                *)
(***************************************************************************)
MaxExtent == 2

MaxElements == 2

\* a Python int and a Python str as values of one shape
PyInt(n) == [type |-> "int", int |-> n, str |-> <<>>]

PyStr(s) == [type |-> "str", int |-> 0, str |-> s]

DigitText == <<"0", "1", "2", "3", "4", "5", "6", "7", "8", "9">>

\* the number a run of decimal digits denotes
RECURSIVE DigitsValue(_)
DigitsValue(u) ==
    IF u = <<>> THEN 0
    ELSE 10 * DigitsValue(SubSeq(u, 1, Len(u) - 1))
         + ((CHOOSE k \in 1..10 : DigitText[k] = u[Len(u)]) - 1)

\* int(s) for an s that int() accepts
IntValue(s) ==
    LET t == Strip(s)
        u == RemoveChars(IF Head(t) \in {"+", "-"} THEN Tail(t) ELSE t, {"_"})
    IN  IF Head(t) = "-" THEN 0 - DigitsValue(u) ELSE DigitsValue(u)

\* str(n) for n >= 0
RECURSIVE IntText(_)
IntText(n) ==
    IF n < 10 THEN <<DigitText[n + 1]>>
    ELSE IntText(n \div 10) \o <<DigitText[(n % 10) + 1]>>

\* sep.join(parts)
RECURSIVE Join(_, _)
Join(parts, sep) ==
    IF parts = <<>> THEN <<>>
    ELSE IF Len(parts) = 1 THEN parts[1]
    ELSE parts[1] \o sep \o Join(Tail(parts), sep)

\* the product of the numbers of a list
RECURSIVE Product(_)
Product(d) == IF d = <<>> THEN 1 ELSE Head(d) * Product(Tail(d))

\* Tag.dimensions: None, an int or a list of ints
NoDimensions == [kind |-> "None", of |-> <<>>]

\* Tag.__get_dimensions_from_str__
get_dimensions_from_str(dim_string) ==
    IF dim_string = <<>> THEN NoDimensions
    ELSE IF IntParses(dim_string) THEN [kind |-> "int", of |-> <<IntValue(dim_string)>>]
    ELSE LET multi_dim == Split(dim_string, " ")
         IN  IF Len(multi_dim) \in {2, 3}
             THEN IF \A i \in 1..Len(multi_dim) : IntParses(multi_dim[i])
                  THEN [kind |-> "list",
                        of |-> [i \in 1..Len(multi_dim) |-> IntValue(multi_dim[i])]]
                  ELSE NoDimensions
             ELSE NoDimensions

\* the index paths, from 0, of a nested list with the given extents
Cells(shape) ==
    {p \in [1..Len(shape) -> 0..MaxExtent] : \A i \in 1..Len(shape) : p[i] < shape[i]}

\* a nested list built by comprehensions over range(shape[i]), outermost first,
\* every cell holding value: its extents and its cells by index path
NestedList(shape, value) == [shape |-> shape, cells |-> [p \in Cells(shape) |-> value]]

\* the nodes of a value tree: a dict with 'Type' and, by type, 'Name', 'Value',
\* 'Dimensions' and 'Members'
DataNode(type, n, dim, members) ==
    [Type |-> type, Name |-> n, Value |-> PyInt(0), Dimensions |-> dim, Members |-> members]

DataValue == DataNode("DataValue", <<>>, NestedList(<<>>, PyInt(0)), <<>>)

Array(dim) == DataNode("Array", <<>>, dim, <<>>)

\* Tag.__resolve_data_from_atomic_datatype__: a list of one number cannot come
\* out of __get_dimensions_from_str__
resolve_data_from_atomic_datatype(dimensions) ==
    IF dimensions.kind = "None" \/ (dimensions.kind = "int" /\ dimensions.of[1] = 0)
    THEN DataValue
    ELSE IF dimensions.kind = "int"
    THEN Array(NestedList(<<dimensions.of[1]>>, PyInt(0)))
    ELSE IF Len(dimensions.of) = 2
    THEN Array(NestedList(<<dimensions.of[1], dimensions.of[2]>>, PyInt(0)))
    ELSE Array(NestedList(<<dimensions.of[1], dimensions.of[2]>>, PyInt(0)))

\* Tag.__init__ of a tag of an atomic datatype
TagInit(dim_string) ==
    [dimensions |-> get_dimensions_from_str(dim_string),
     data |-> resolve_data_from_atomic_datatype(get_dimensions_from_str(dim_string))]

\* an Element node of a decorated Array node
Element(index, value) == [Index |-> index, Value |-> value]

\* the Index attribute of the cell at a path: [i], [i,j] or [i,j,k]
IndexText(p) == <<"[">> \o Join([i \in 1..Len(p) |-> IntText(p[i])], <<",">>) \o <<"]">>

\* nested[path[1]]...[path[n]] = value on a nested list: the cell, or the whole
\* sub-list under a path shorter than the nesting, is replaced; a path longer
\* than the nesting subscripts an int
SetItem(nested, path, value) ==
    IF \E q \in DOMAIN nested.cells :
           Len(q) < Len(path) /\ q = SubSeq(path, 1, Len(q))
    THEN [nested |-> nested, raised |-> "TypeError"]
    ELSE IF ~\E q \in DOMAIN nested.cells :
                Len(q) >= Len(path) /\ SubSeq(q, 1, Len(path)) = path
    THEN [nested |-> nested, raised |-> "IndexError"]
    ELSE [nested |-> [nested EXCEPT !.cells =
                         [q \in {c \in DOMAIN nested.cells :
                                     ~(Len(c) >= Len(path) /\ SubSeq(c, 1, Len(path)) = path)}
                                 \cup {path} |->
                             IF q = path THEN value ELSE nested.cells[q]]],
          raised |-> "none"]

\* the loop of Tag.__read_decorated_xml_node__ over the Element nodes of an
\* Array node, from the one at position index
RECURSIVE read_elements(_, _, _)
read_elements(nested, parsed_nodes, index) ==
    IF index >= Len(parsed_nodes) THEN [nested |-> nested, raised |-> "none"]
    ELSE LET filtered_index ==
                 Split(RemoveChars(parsed_nodes[index + 1].Index, {"[", "]"}), ",")
             path == IF Len(filtered_index) = 1 THEN <<index>>
                     ELSE [i \in 1..Len(filtered_index) |-> IntValue(filtered_index[i])]
         IN  IF Len(filtered_index) > 3
             THEN read_elements(nested, parsed_nodes, index + 1)
             ELSE IF Len(filtered_index) > 1
                     /\ \E i \in 1..Len(filtered_index) : ~IntParses(filtered_index[i])
             THEN [nested |-> nested, raised |-> "ValueError"]
             ELSE LET r == SetItem(nested, path, PyStr(parsed_nodes[index + 1].Value))
                  IN  IF r.raised # "none" THEN r
                      ELSE read_elements(r.nested, parsed_nodes, index + 1)

\* Tag.__read_decorated_xml_node__ of a node with the Element nodes given
read_decorated_xml_node(data, parsed_nodes) ==
    IF data.Type # "Array" THEN [data |-> data, raised |-> "none"]
    ELSE LET r == read_elements(data.Dimensions, parsed_nodes, 0)
         IN  [data |-> [data EXCEPT !.Dimensions = r.nested], raised |-> r.raised]

\* int(text): the number, or the ValueError int() raises
int(text) ==
    IF IntParses(text) THEN [raised |-> "none", value |-> IntValue(text)]
    ELSE [raised |-> "ValueError", value |-> 0]

\* the texts of a numeric attribute: well-formed and malformed
NumberTexts == {<<"2">>, <<" ", "2">>, <<"x">>, <<>>, <<"1", ".", "5">>}

\* DataTypeMember.from_l5x_xml_node of a Member element whose Dimension
\* attribute is the text given
MemberFromL5x(meta, dimension, radix, hidden) ==
    /\ IF int(dimension).raised = "none"
       THEN ReadMember(meta, int(dimension).value, radix, hidden)
       ELSE UNCHANGED <<member, declared, emitted>>
    /\ xml_io' = <<[op |-> "member", attributes |-> <<dimension>>,
                    raised |-> int(dimension).raised,
                    numbers |-> <<int(dimension).value>>]>>
    /\ UNCHANGED the_tag

\* the construction of Rung.from_l5x_xml_node for a Rung element whose Number
\* attribute is the text given
RungFromL5x(number) ==
    /\ xml_io' = <<[op |-> "rung", attributes |-> <<number>>,
                    raised |-> int(number).raised,
                    numbers |-> <<int(number).value>>]>>
    /\ UNCHANGED the_tag

\* the construction of Task.from_l5x_xml_node for a Task element whose
\* Priority and Watchdog attributes are the texts given
TaskFromL5x(priority, watchdog) ==
    /\ xml_io' = <<[op |-> "task", attributes |-> <<priority, watchdog>>,
                    raised |-> IF int(priority).raised # "none" THEN int(priority).raised
                               ELSE int(watchdog).raised,
                    numbers |-> <<int(priority).value, int(watchdog).value>>]>>
    /\ UNCHANGED the_tag

\* the texts of a Dimensions attribute: one to three extents, and the malformed
DimensionTexts ==
    {Join([i \in 1..Len(d) |-> IntText(d[i])], <<" ">>) :
        d \in UNION {[1..k -> 1..MaxExtent] : k \in 1..3}}
    \cup {<<>>, <<"0">>, <<"x">>, <<"2", " ", "x">>, <<"1", " ", "1", " ", "1", " ", "1">>}

\* the numbers a well-formed Dimensions text names
Declared(dim_string) ==
    IF \A i \in 1..Len(Split(dim_string, " ")) : IntParses(Split(dim_string, " ")[i])
    THEN [i \in 1..Len(Split(dim_string, " ")) |-> IntValue(Split(dim_string, " ")[i])]
    ELSE <<>>

\* the lists of Element nodes that name distinct cells within the declared
\* extents
ElementLists(dim_string) ==
    LET inside == {Element(IndexText(p), <<"5">>) : p \in Cells(Declared(dim_string))}
    IN  {l \in UNION {[1..n -> inside] : n \in 0..MaxElements} :
            \A i, j \in 1..Len(l) : l[i] = l[j] => i = j}

\* Tag.from_l5x_xml_node of a Tag element of an atomic datatype: decorated is
\* <<the Element nodes of its decorated Array node>>, or None without one
TagFromL5x(dim_string, decorated) ==
    /\ \E r \in {IF decorated = None THEN [data |-> TagInit(dim_string).data, raised |-> "none"]
                 ELSE read_decorated_xml_node(TagInit(dim_string).data, decorated[1])} :
          /\ the_tag' = [TagInit(dim_string) EXCEPT !.data = r.data]
          /\ xml_io' = <<[op |-> "tag", Dimensions |-> dim_string, decorated |-> decorated,
                          raised |-> r.raised]>>

\* at most this many members are read for the datatype of a tag
MaxStructMembers == 2

\* Tag.__resolve_data_from_member__ for a member of an atomic datatype:
\* nothing for a hidden member
resolve_data_from_member(m) ==
    IF m.hidden THEN <<>>
    ELSE IF m.dimensions # 0
    THEN <<DataNode("ArrayMember", m.name, NestedList(<<m.dimensions>>, PyInt(0)), <<>>)>>
    ELSE <<DataNode("DataValueMember", m.name, NestedList(<<>>, PyInt(0)), <<>>)>>

\* Tag.__resolve_data_from_complex_datatype__ for the members given
RECURSIVE resolve_members(_)
resolve_members(members) ==
    IF members = <<>> THEN <<>>
    ELSE resolve_data_from_member(Head(members)) \o resolve_members(Tail(members))

resolve_data_from_complex_datatype(members) ==
    DataNode("Structure", <<>>, NestedList(<<>>, PyInt(0)), resolve_members(members))

\* Tag.__init__ of a tag whose datatype is a user-defined datatype with the
\* members given, all of atomic datatypes
TagOfStructure(members) ==
    /\ the_tag' = [dimensions |-> NoDimensions,
                   data |-> resolve_data_from_complex_datatype(members)]
    /\ xml_io' = <<[op |-> "structure", raised |-> "none"]>>

\* str(value) if value else '0'
ValueText(value) ==
    IF value.type = "int" THEN (IF value.int # 0 THEN IntText(value.int) ELSE <<"0">>)
    ELSE IF value.str # <<>> THEN value.str ELSE <<"0">>

\* Tag.__get_array_dimensions__ of a nested list: 0 stands for the IndexError
\* of array_list[0][0] on an empty inner list
get_array_dimensions(nested) ==
    IF nested.shape[1] = 0 THEN 1
    ELSE IF Len(nested.shape) = 1 THEN 1
    ELSE IF nested.shape[2] = 0 THEN 0
    ELSE IF Len(nested.shape) = 2 THEN 2 ELSE 3

\* the index path of the k-th cell, from 1, that nested loops over a nested
\* list of the given extents reach
RECURSIVE CellPath(_, _)
CellPath(shape, k) ==
    IF Len(shape) = 1 THEN <<k - 1>>
    ELSE <<(k - 1) \div Product(Tail(shape))>>
         \o CellPath(Tail(shape), ((k - 1) % Product(Tail(shape))) + 1)

\* an XML node written: its tag, its Name attribute, its Element children and
\* its member children
XmlNode(type, n, elements, members) ==
    [Type |-> type, Name |-> n, Elements |-> elements, Members |-> members]

write_array_member_all(data) ==
    XmlNode(data.Type, data.Name,
            [k \in 1..Cardinality(DOMAIN data.Dimensions.cells) |->
                 Element(IndexText(<<k - 1>>), ValueText(data.Dimensions.cells[<<k - 1>>]))],
            <<>>)

\* the ArrayMember branch of Tag.__write_structured_l5x_data__ for a list of
\* at least one cell: the return stands inside the loop
write_array_member(data) ==
    XmlNode(data.Type, data.Name,
            <<Element(IndexText(<<0>>), ValueText(data.Dimensions.cells[<<0>>]))>>,
            <<>>)

\* Tag.__write_structured_l5x_data__ for a member of an atomic datatype
write_structured_l5x_data(data) ==
    IF data.Type = "DataValueMember" THEN XmlNode(data.Type, data.Name, <<>>, <<>>)
    ELSE write_array_member(data)

\* Tag.__write_l5x_tag_data__: the node, for an Array one Element for every
\* cell the loops reach
write_l5x_tag_data(data) ==
    IF data.Type = "DataValue" THEN [raised |-> "none", node |-> XmlNode(data.Type, <<>>, <<>>, <<>>)]
    ELSE IF data.Type = "Array"
    THEN IF get_array_dimensions(data.Dimensions) = 0
         THEN [raised |-> "IndexError", node |-> XmlNode(data.Type, <<>>, <<>>, <<>>)]
         ELSE [raised |-> "none",
               node |-> XmlNode(data.Type, <<>>,
                                [k \in 1..Product(data.Dimensions.shape) |->
                                     Element(IndexText(CellPath(data.Dimensions.shape, k)),
                                             ValueText(data.Dimensions.cells[
                                                 CellPath(data.Dimensions.shape, k)]))],
                                <<>>)]
    ELSE [raised |-> "none",
          node |-> XmlNode(data.Type, <<>>, <<>>,
                           [i \in 1..Len(data.Members) |->
                                write_structured_l5x_data(data.Members[i])])]

\* tag.__write_l5x_tag_data__(root) of a tag that was read or made
WriteTagData ==
    /\ xml_io # <<>> /\ xml_io[1].op \in {"tag", "structure"} /\ xml_io[1].raised = "none"
    /\ \E r \in {write_l5x_tag_data(the_tag.data)} :
          xml_io' = <<[op |-> "write", raised |-> r.raised, node |-> r.node]>>
    /\ UNCHANGED the_tag

\* the members of a user-defined datatype: up to MaxStructMembers members of
\* atomic datatypes, each a value or an array of up to MaxExtent cells
StructMembers ==
    {ms \in UNION {[1..n -> [name : {MemberName(i) : i \in 1..MaxStructMembers},
                             dimensions : 0..MaxExtent, hidden : BOOLEAN]] :
                       n \in 1..MaxStructMembers} :
        \A i \in 1..Len(ms) : ms[i].name = MemberName(i)}

(***************************************************************************)
(* Specifications                                                          *)
(***************************************************************************)
\* the state after construction: one named entity, one scalar DINT member
Init ==
    /\ name = <<"a">>
    /\ nameArg = <<"a">>
    /\ namePrev = <<"a">>
    /\ nameRaised = FALSE
    /\ member = DataTypeMemberInit(Str_M1, Str_DINT, 0, None, FALSE)
    /\ declared = Str_DINT
    /\ emitted = <<>>
    /\ rungText = <<>>
    /\ mined = FALSE
    /\ instrMetas = {}
    /\ tagMetas = {}
    /\ heap = [i \in {DataTypeListInit[k] : k \in 1..Len(ATOMIC_DATA_TYPES)} |->
                   ATOMIC_DATA_TYPES[i[2]]]
    /\ controller = ControllerInit(Str_Ctrl, <<>>)
    /\ rebinds = 0
    /\ depsCall = <<>>
    /\ depsResult = <<>>
    /\ acc = PyLogixDependencies
    /\ accOp = "none"
    /\ pushed = <<>>
    /\ other_obj = <<>>
    /\ merge = <<>>
    /\ the_tag = TagInit(<<>>)
    /\ xml_io = <<>>

NextName ==
    \E value \in NameValues : SetName(value) /\ UNCHANGED <<memberVars, minerVars, graphVars, accVars, pushed, mergeVars, dataVars>>

SpecName == Init /\ [][NextName]_vars

NextMember ==
    \/ \E meta \in TypeNames, dim \in 0..MaxDim, radix \in Radixes, hidden \in BOOLEAN :
          ReadMember(meta, dim, radix, hidden) /\ UNCHANGED <<nameVars, minerVars, graphVars, accVars, pushed, mergeVars, dataVars>>
    \/ EmitMember /\ UNCHANGED <<nameVars, minerVars, graphVars, accVars, pushed, mergeVars, dataVars>>

SpecMember == Init /\ [][NextMember]_vars

NextMiner ==
    \/ \E c \in MinerChars : EditText(c) /\ UNCHANGED <<nameVars, memberVars, graphVars, accVars, pushed, mergeVars, dataVars>>
    \/ \E t \in ExampleTexts : LoadText(t) /\ UNCHANGED <<nameVars, memberVars, graphVars, accVars, pushed, mergeVars, dataVars>>
    \/ Mine /\ UNCHANGED <<nameVars, memberVars, graphVars, accVars, pushed, mergeVars, dataVars>>

SpecMiner == Init /\ [][NextMiner]_vars

\* datatypes are parsed, the controller is rebound, closures are taken
NextDeps ==
    \/ ParseDataType(MaxUdts, DeclaredBefore, {<<>>})
          /\ UNCHANGED <<nameVars, memberVars, minerVars, accVars, pushed, mergeVars, dataVars>>
    \/ Rebind(1) /\ UNCHANGED <<nameVars, memberVars, minerVars, accVars, pushed, mergeVars, dataVars>>
    \/ \E e \in IdsOf(heap, "DataType"), include_root \in BOOLEAN :
          GetDependencies(e, include_root) /\ UNCHANGED <<nameVars, memberVars, minerVars, accVars, pushed, mergeVars, dataVars>>

SpecDeps == Init /\ [][NextDeps]_vars

\* datatypes and an add-on instruction are parsed, the controller is rebound,
\* the closure of the add-on instruction is taken
NextAoi ==
    \/ /\ IdsOf(heap, "AddOnInstructionDefinition") = {}
       /\ ParseDataType(MaxAoiUdts, DeclaredBefore, {<<>>})
       /\ UNCHANGED <<nameVars, memberVars, minerVars, accVars, pushed, mergeVars, dataVars>>
    \/ ParseAddOnInstruction /\ UNCHANGED <<nameVars, memberVars, minerVars, accVars, pushed, mergeVars, dataVars>>
    \/ Rebind(1) /\ UNCHANGED <<nameVars, memberVars, minerVars, accVars, pushed, mergeVars, dataVars>>
    \/ \E e \in IdsOf(heap, "AddOnInstructionDefinition"), include_root \in BOOLEAN :
          GetDependencies(e, include_root) /\ UNCHANGED <<nameVars, memberVars, minerVars, accVars, pushed, mergeVars, dataVars>>

SpecAoi == Init /\ [][NextAoi]_vars

\* a rung text over the first controller tag and a program tag
Str_Q1 == <<"Q", "1">>

Text_BothTags == <<"X", "I", "C", "(", "T", "1", ")", "O", "T", "E", "(", "Q", "1", ")">>

\* a rung text over the first two tag names
Text_TwoTags == <<"X", "I", "C", "(", "T", "1", ")", "O", "T", "E", "(", "T", "2", ")">>

\* a routine description that marks a driver, a rung comment that marks a
\* generator
Desc_Driver == <<"<", "@", "T", "Y", "P", "E", " ", "D", "R", "I", "V", "E", "R", ">">>

Comment_Generator == <<"<", "@", "G", "E", "N", "E", "R", "A", "T", "O", "R", ">">>

\* a controller is read element by element, then rebound, once or again
NextRebind ==
    \/ ParseDataType(1, [k \in 1..Len(DigitSeq) |-> {Str_DINT}], {<<>>})
          /\ controller.tags = <<>> /\ controller.programs = <<>> /\ controller.tasks = <<>>
          /\ UNCHANGED <<nameVars, memberVars, minerVars, accVars, pushed, mergeVars, dataVars>>
    \/ ParseTag(MaxTags, {TagName(Len(controller.tags) + 1)}, {Str_DINT},
               {TagName(k) : k \in 1..MaxTags}, {<<>>})
          /\ UNCHANGED <<nameVars, memberVars, minerVars, accVars, pushed, mergeVars, dataVars>>
    \/ ParseProgram(1, {<<>>}) /\ UNCHANGED <<nameVars, memberVars, minerVars, accVars, pushed, mergeVars, dataVars>>
    \/ ParseProgramTag(MaxProgramTags, {Str_Q1}, {Str_DINT}, {TagName(k) : k \in 1..MaxTags})
          /\ UNCHANGED <<nameVars, memberVars, minerVars, accVars, pushed, mergeVars, dataVars>>
    \/ ParseRoutine(1, MaxRungs, {RoutineName(1)}, {<<>>, Desc_Driver}, {Text_BothTags},
                    {<<>>, Comment_Generator})
          /\ UNCHANGED <<nameVars, memberVars, minerVars, accVars, pushed, mergeVars, dataVars>>
    \/ ParseTask(1, {<<ProgramName(1)>>, <<ProgramName(2)>>})
          /\ UNCHANGED <<nameVars, memberVars, minerVars, accVars, pushed, mergeVars, dataVars>>
    \/ Rebind(MaxRebinds) /\ UNCHANGED <<nameVars, memberVars, minerVars, accVars, pushed, mergeVars, dataVars>>

SpecRebind == Init /\ [][NextRebind]_vars

\* a small project is read, in which a program tag has the name of a
\* controller tag; closures are taken and accumulated
NextClosure ==
    \/ ParseDataType(1, [k \in 1..Len(DigitSeq) |-> {}], {<<>>})
          /\ controller.tags = <<>> /\ controller.programs = <<>> /\ controller.tasks = <<>>
          /\ accOp = "none"
          /\ UNCHANGED <<nameVars, memberVars, minerVars, accVars, pushed, mergeVars, dataVars>>
    \/ ParseTag(2, {TagName(Len(controller.tags) + 1)}, {Str_U1}, {}, {<<>>}) /\ accOp = "none"
          /\ UNCHANGED <<nameVars, memberVars, minerVars, accVars, pushed, mergeVars, dataVars>>
    \/ ParseProgram(1, {<<>>}) /\ accOp = "none"
          /\ UNCHANGED <<nameVars, memberVars, minerVars, accVars, pushed, mergeVars, dataVars>>
    \/ ParseProgramTag(1, {TagName(1)}, {Str_U1}, {}) /\ accOp = "none"
          /\ UNCHANGED <<nameVars, memberVars, minerVars, accVars, pushed, mergeVars, dataVars>>
    \/ ParseRoutine(1, MaxRungs, {RoutineName(1)}, {<<>>}, {Text_TwoTags}, {<<>>})
          /\ accOp = "none"
          /\ UNCHANGED <<nameVars, memberVars, minerVars, accVars, pushed, mergeVars, dataVars>>
    \/ ParseTask(1, {<<ProgramName(1)>>}) /\ accOp = "none"
          /\ UNCHANGED <<nameVars, memberVars, minerVars, accVars, pushed, mergeVars, dataVars>>
    \/ \E e \in UserEntities(heap), include_root \in BOOLEAN :
          GetDependencies(e, include_root)
             /\ UNCHANGED <<nameVars, memberVars, minerVars, accVars, pushed, mergeVars, dataVars>>
    \/ \E item \in UserEntities(heap) \ Rungs(heap) : \E bucket \in BucketsOf(item[1]) :
          AccSafeAddItem(bucket, item) /\ UNCHANGED <<nameVars, memberVars, minerVars, mergeVars, dataVars>>
    \/ \E e \in UserEntities(heap), include_root \in BOOLEAN :
          AccExtend(e, include_root) /\ UNCHANGED <<nameVars, memberVars, minerVars, mergeVars, dataVars>>
    \/ AccExtendSelf /\ UNCHANGED <<nameVars, memberVars, minerVars, mergeVars, dataVars>>

SpecClosure == Init /\ [][NextClosure]_vars

\* the routine names of the similarity runs
Name_Logic_01 == <<"Z", "o", "n", "e", "_", "C", "o", "n", "v", "e", "y", "o", "r", "_", "L", "o", "g", "i", "c", "_", "0", "1">>

Name_Logic_02 == <<"Z", "o", "n", "e", "_", "C", "o", "n", "v", "e", "y", "o", "r", "_", "L", "o", "g", "i", "c", "_", "0", "2">>

Name_Logic_1 == <<"Z", "o", "n", "e", "_", "C", "o", "n", "v", "e", "y", "o", "r", "_", "L", "o", "g", "i", "c", "_", "1">>

\* the routine names of the driver runs: instance tokens, then a suffix
Name_M01_PumpA_Start == <<"M", "0", "1", "_", "P", "u", "m", "p", "A", "_", "S", "t", "a", "r", "t">>

Name_M02_PumpB_Start == <<"M", "0", "2", "_", "P", "u", "m", "p", "B", "_", "S", "t", "a", "r", "t">>

Name_M02_PumpB_Stop == <<"M", "0", "2", "_", "P", "u", "m", "p", "B", "_", "S", "t", "o", "p">>

Name_Main == <<"M", "a", "i", "n">>

\* the controller tags of the driver runs and the rung texts over them
Name_M01_Cmd == <<"M", "0", "1", "_", "C", "m", "d">>

Name_PumpA_Run == <<"P", "u", "m", "p", "A", "_", "R", "u", "n">>

Text_Driver == <<"X", "I", "C", "(", "M", "0", "1", "_", "C", "m", "d", ")", "O", "T", "E", "(", "P", "u", "m", "p", "A", "_", "R", "u", "n", ")">>

Text_DriverRun == <<"X", "I", "C", "(", "P", "u", "m", "p", "A", "_", "R", "u", "n", ")">>

\* at most this many routines are read for the program a driver is pushed to
MaxTargets == 2

\* two controller tags and two programs are read: the first holds a routine
\* that is pushed, as a driver, to the second
NextDriver ==
    \/ ParseTag(2, {Name_M01_Cmd, Name_PumpA_Run}, {Str_DINT}, {}, {<<>>}) /\ pushed = <<>>
          /\ UNCHANGED <<nameVars, memberVars, minerVars, accVars, pushed, mergeVars, dataVars>>
    \/ ParseProgram(2, {<<>>}) /\ pushed = <<>>
          /\ UNCHANGED <<nameVars, memberVars, minerVars, accVars, pushed, mergeVars, dataVars>>
    \/ /\ Len(controller.programs) = 1 /\ pushed = <<>>
       /\ ParseRoutine(1, MaxRungs, {Name_M01_PumpA_Start, Name_Main}, {<<>>},
                       {Text_Driver, Text_DriverRun}, {<<>>})
       /\ UNCHANGED <<nameVars, memberVars, minerVars, accVars, pushed, mergeVars, dataVars>>
    \/ /\ Len(controller.programs) = 2 /\ pushed = <<>>
       /\ ParseRoutine(MaxTargets, 0,
                       {Name_M02_PumpB_Start, Name_M02_PumpB_Stop, Name_M01_PumpA_Start,
                        Name_Main},
                       {<<>>}, {}, {})
       /\ UNCHANGED <<nameVars, memberVars, minerVars, accVars, pushed, mergeVars, dataVars>>
    \/ /\ Len(controller.programs) = 2
       /\ \E routine \in Range(heap[controller.programs[1]].routines) :
             PushDriverRoutine(routine, controller.programs[2])
       /\ UNCHANGED <<nameVars, memberVars, minerVars, mergeVars, dataVars>>

SpecDriver == Init /\ [][NextDriver]_vars

\* two programs are read: a routine of the first is pushed to the second,
\* which holds up to MaxTargets routines of similar and of other names
NextSimilar ==
    \/ ParseProgram(2, {<<>>}) /\ merge = <<>>
          /\ UNCHANGED <<nameVars, memberVars, minerVars, accVars, pushed, mergeVars, dataVars>>
    \/ /\ Len(controller.programs) = 1 /\ merge = <<>>
       /\ ParseProgramTag(MaxProgramTags, {Str_Q1}, {Str_DINT}, {})
       /\ UNCHANGED <<nameVars, memberVars, minerVars, accVars, pushed, mergeVars, dataVars>>
    \/ /\ Len(controller.programs) = 1 /\ merge = <<>>
       /\ ParseRoutine(1, MaxRungs, {Name_Logic_01}, {<<>>}, {Text_BothTags}, {<<>>})
       /\ UNCHANGED <<nameVars, memberVars, minerVars, accVars, pushed, mergeVars, dataVars>>
    \/ /\ Len(controller.programs) = 2 /\ merge = <<>>
       /\ ParseRoutine(MaxTargets, 0, {Name_Logic_01, Name_Logic_02, Name_Logic_1, Name_Main},
                       {<<>>}, {}, {})
       /\ UNCHANGED <<nameVars, memberVars, minerVars, accVars, pushed, mergeVars, dataVars>>
    \/ /\ Len(controller.programs) = 2
       /\ \E routine \in Range(heap[controller.programs[1]].routines),
             use_similarity_finding \in BOOLEAN :
             PushRoutine(routine, controller.programs[2], use_similarity_finding, DefaultGain)
       /\ UNCHANGED <<nameVars, memberVars, minerVars, dataVars>>

SpecSimilar == Init /\ [][NextSimilar]_vars

\* the descriptions that give a routine or a program its role
Desc_Main == <<"<", "@", "T", "Y", "P", "E", " ", "M", "A", "I", "N", ">">>

Desc_Internal == <<"<", "@", "T", "Y", "P", "E", " ", "I", "N", "T", "E", "R", "N", "A", "L", ">">>

Desc_Device == <<"<", "@", "T", "Y", "P", "E", " ", "D", "E", "V", "I", "C", "E", ">">>

Desc_Zone == <<"<", "@", "T", "Y", "P", "E", " ", "Z", "O", "N", "E", ">">>

\* at most this many routines are read for a program that is pushed
MaxPushed == 2

\* two programs are read and rebound: the first is pushed to the second
NextPrograms ==
    \/ ParseProgram(2, {<<>>}) /\ merge = <<>>
          /\ UNCHANGED <<nameVars, memberVars, minerVars, accVars, pushed, mergeVars, dataVars>>
    \/ /\ Len(controller.programs) = 1 /\ merge = <<>>
       /\ ParseProgramTag(MaxProgramTags, {Str_Q1}, {Str_DINT}, {})
       /\ UNCHANGED <<nameVars, memberVars, minerVars, accVars, pushed, mergeVars, dataVars>>
    \/ /\ Len(controller.programs) = 1 /\ merge = <<>>
       /\ ParseRoutine(MaxPushed, MaxRungs,
                       {Name_Main, Name_M01_PumpA_Start, Name_M02_PumpB_Start},
                       {Desc_Main, Desc_Driver, Desc_Internal}, {Text_BothTags}, {<<>>})
       /\ UNCHANGED <<nameVars, memberVars, minerVars, accVars, pushed, mergeVars, dataVars>>
    \/ /\ Len(controller.programs) = 2 /\ merge = <<>>
       /\ ParseRoutine(MaxTargets, 0, {Name_Main, Name_M01_PumpA_Start, Name_M02_PumpB_Start},
                       {<<>>}, {}, {})
       /\ UNCHANGED <<nameVars, memberVars, minerVars, accVars, pushed, mergeVars, dataVars>>
    \/ /\ Len(controller.programs) = 2 /\ merge = <<>>
       /\ Rebind(1)
       /\ UNCHANGED <<nameVars, memberVars, minerVars, accVars, pushed, mergeVars, dataVars>>
    \/ /\ Len(controller.programs) = 2 /\ rebinds = 1
       /\ ProgramPushUpdates(controller.programs[1], controller.programs[2])
       /\ UNCHANGED <<nameVars, memberVars, minerVars, dataVars>>

SpecPrograms == Init /\ [][NextPrograms]_vars

\* at most this many programs are read for a controller that takes part in a
\* push of programs
MaxMatched == 2

\* a controller with programs of several roles is read and rebound, then a
\* second one, whose programs carry a main routine; the programs of the
\* second are pushed to the programs of the first
NextMatch ==
    \/ ParseProgram(MaxMatched, {<<>>, Desc_Device, Desc_Zone}) /\ merge = <<>>
          /\ UNCHANGED <<nameVars, memberVars, minerVars, accVars, pushed, mergeVars, dataVars>>
    \/ /\ other_obj # <<>> /\ merge = <<>>
       /\ ParseRoutine(1, 0, {Name_Main}, {Desc_Main}, {}, {})
       /\ UNCHANGED <<nameVars, memberVars, minerVars, accVars, pushed, mergeVars, dataVars>>
    \/ /\ merge = <<>>
       /\ Rebind(1)
       /\ UNCHANGED <<nameVars, memberVars, minerVars, accVars, pushed, mergeVars, dataVars>>
    \/ SecondController /\ UNCHANGED <<nameVars, memberVars, minerVars, dataVars>>
    \/ /\ rebinds = 1
       /\ ProgramListPushUpdates
       /\ UNCHANGED <<nameVars, memberVars, minerVars, dataVars>>

SpecMatch == Init /\ [][NextMatch]_vars

Desc_Udt == <<"<", "@", "U", "D", "T", ">">>

Desc_NoEdits == <<"<", "@", "U", "D", "T", ">", "<", "@", "N", "O", "E", "D", "I", "T", "S", ">">>

Text_T1 == <<"X", "I", "C", "(", "T", "1", ")">>

\* at most this many user-defined datatypes are read for a controller that
\* takes part in a merge
MaxMerged == 2

\* the member types of the datatypes of a merge: U1 has atomic members, the
\* members of U2 are of U1
MergedMembers == [k \in 1..Len(DigitSeq) |-> IF k = 1 THEN {Str_DINT} ELSE {UdtName(1)}]

\* a controller with datatypes U1 and U2, a tag of U2 and a program is read
\* and rebound, then a second one in the same way, whose datatypes carry
\* description metadata and whose program has a main routine that refers to
\* the tag; the second controller pushes its updates to the first
NextMerge ==
    \/ /\ other_obj = <<>> /\ controller.tags = <<>> /\ controller.programs = <<>>
       /\ ParseDataType(MaxMerged, MergedMembers, {<<>>})
       /\ UNCHANGED <<nameVars, memberVars, minerVars, accVars, pushed, mergeVars, dataVars>>
    \/ /\ other_obj # <<>> /\ controller.tags = <<>> /\ controller.programs = <<>>
       /\ ParseDataType(MaxMerged, MergedMembers, {<<>>, Desc_Udt, Desc_NoEdits})
       /\ UNCHANGED <<nameVars, memberVars, minerVars, accVars, pushed, mergeVars, dataVars>>
    \/ /\ UdtsOf(controller) = MaxMerged
       /\ ParseTag(1, {TagName(1)}, {UdtName(MaxMerged)}, {}, {<<>>})
       /\ UNCHANGED <<nameVars, memberVars, minerVars, accVars, pushed, mergeVars, dataVars>>
    \/ /\ controller.tags # <<>>
       /\ ParseProgram(1, {Desc_Zone})
       /\ UNCHANGED <<nameVars, memberVars, minerVars, accVars, pushed, mergeVars, dataVars>>
    \/ /\ other_obj # <<>>
       /\ ParseRoutine(1, MaxRungs, {Name_Main}, {Desc_Main}, {Text_T1}, {<<>>})
       /\ UNCHANGED <<nameVars, memberVars, minerVars, accVars, pushed, mergeVars, dataVars>>
    \/ /\ merge = <<>> /\ controller.programs # <<>>
       /\ Rebind(1)
       /\ UNCHANGED <<nameVars, memberVars, minerVars, accVars, pushed, mergeVars, dataVars>>
    \/ SecondController /\ UNCHANGED <<nameVars, memberVars, minerVars, dataVars>>
    \/ /\ rebinds = 1
       /\ ControllerPushUpdates
       /\ UNCHANGED <<nameVars, memberVars, minerVars, dataVars>>

SpecMerge == Init /\ [][NextMerge]_vars

\* at most this many tag objects are made for a list whose names are watched
MaxNamed == 4

\* the tags of a controller are read, extended, removed and renamed
NextNames ==
    \/ ParseTag(2, {TagName(1), TagName(2)}, {Str_DINT}, {}, {<<>>})
          /\ Cardinality(IdsOf(heap, "Tag")) < MaxNamed
          /\ UNCHANGED <<nameVars, memberVars, minerVars, accVars, pushed, mergeVars, dataVars>>
    \/ ExtendTags(MaxNamed, {TagName(1), TagName(2)})
          /\ UNCHANGED <<nameVars, memberVars, minerVars, accVars, pushed, mergeVars, dataVars>>
    \/ RemoveTag
          /\ UNCHANGED <<nameVars, memberVars, minerVars, accVars, pushed, mergeVars, dataVars>>
    \/ RenameStrings({<<"1">>, <<"2">>}, {<<"1">>, <<"2">>, <<".">>})
          /\ UNCHANGED <<nameVars, memberVars, minerVars, accVars, pushed, mergeVars, dataVars>>

SpecNames == Init /\ [][NextNames]_vars

\* a project with a routine is read and rebound, its tags are renamed and it
\* is rebound again
NextRemine ==
    \/ ParseTag(2, {TagName(Len(controller.tags) + 1)}, {Str_DINT}, {}, {<<>>})
          /\ UNCHANGED <<nameVars, memberVars, minerVars, accVars, pushed, mergeVars, dataVars>>
    \/ ParseProgram(1, {<<>>})
          /\ UNCHANGED <<nameVars, memberVars, minerVars, accVars, pushed, mergeVars, dataVars>>
    \/ ParseProgramTag(MaxProgramTags, {Str_Q1}, {Str_DINT}, {TagName(2)})
          /\ UNCHANGED <<nameVars, memberVars, minerVars, accVars, pushed, mergeVars, dataVars>>
    \/ ParseRoutine(1, MaxRungs, {Name_Main}, {<<>>}, {Text_BothTags}, {<<>>})
          /\ UNCHANGED <<nameVars, memberVars, minerVars, accVars, pushed, mergeVars, dataVars>>
    \/ Rebind(MaxRebinds)
          /\ UNCHANGED <<nameVars, memberVars, minerVars, accVars, pushed, mergeVars, dataVars>>
    \/ /\ rebinds = 1
       /\ RenameStrings({<<"1">>}, {<<"2">>, <<"3">>})
       /\ UNCHANGED <<nameVars, memberVars, minerVars, accVars, pushed, mergeVars, dataVars>>

SpecRemine == Init /\ [][NextRemine]_vars

\* at most this many tags are read for a program whose alias tags are watched
MaxScoped == 2

\* a project is read in which the program has a tag of the name of a
\* controller tag and an alias tag for that name, and is rebound
NextScope ==
    \/ ParseTag(2, {TagName(Len(controller.tags) + 1)}, {Str_DINT},
                {TagName(1), TagName(3)}, {<<>>})
          /\ UNCHANGED <<nameVars, memberVars, minerVars, accVars, pushed, mergeVars, dataVars>>
    \/ ParseProgram(1, {<<>>})
          /\ UNCHANGED <<nameVars, memberVars, minerVars, accVars, pushed, mergeVars, dataVars>>
    \/ ParseProgramTag(MaxScoped, {TagName(1), Str_Q1}, {Str_REAL}, {TagName(1), TagName(3)})
          /\ UNCHANGED <<nameVars, memberVars, minerVars, accVars, pushed, mergeVars, dataVars>>
    \/ Rebind(MaxRebinds)
          /\ UNCHANGED <<nameVars, memberVars, minerVars, accVars, pushed, mergeVars, dataVars>>

SpecScope == Init /\ [][NextScope]_vars

\* at most this many tasks are read for a controller whose schedules are
\* watched
MaxScheduled == 2

\* a project with two programs and tasks that schedule them in either order,
\* or schedule a program that is missing, is read and rebound
NextTask ==
    \/ ParseProgram(2, {<<>>, Desc_Zone})
          /\ UNCHANGED <<nameVars, memberVars, minerVars, accVars, pushed, mergeVars, dataVars>>
    \/ ParseTask(MaxScheduled,
                 {<<ProgramName(1), ProgramName(2)>>, <<ProgramName(2), ProgramName(1)>>,
                  <<ProgramName(2), ProgramName(3)>>, <<ProgramName(1)>>})
          /\ UNCHANGED <<nameVars, memberVars, minerVars, accVars, pushed, mergeVars, dataVars>>
    \/ Rebind(MaxRebinds)
          /\ UNCHANGED <<nameVars, memberVars, minerVars, accVars, pushed, mergeVars, dataVars>>

SpecTask == Init /\ [][NextTask]_vars

\* descriptions with free text before, between and after their properties
Desc_Plain == <<"a", "b">>

Desc_TextFirst == <<"x", " ", "<", "@", "R", "O", "U", "T", "I", "N", "E", ">", "<", "@", "T", "Y", "P", "E", " ", "M", "A", "I", "N", ">">>

Desc_TextBetween == <<"<", "@", "R", "O", "U", "T", "I", "N", "E", ">", " ", "x", " ", "<", "@", "T", "Y", "P", "E", " ", "M", "A", "I", "N", ">">>

Desc_TextLast == <<"<", "@", "R", "O", "U", "T", "I", "N", "E", ">", "<", "@", "T", "Y", "P", "E", " ", "M", "A", "I", "N", ">", " ", "x">>

Desc_Routine == <<"<", "@", "R", "O", "U", "T", "I", "N", "E", ">", "<", "@", "T", "Y", "P", "E", " ", "M", "A", "I", "N", ">">>

MetaDescriptions ==
    {<<>>, Desc_Plain, Desc_Udt, Desc_NoEdits, Desc_Routine, Desc_TextFirst, Desc_TextBetween,
     Desc_TextLast}

\* a program and its routines are read with descriptions of every kind, and
\* the controller is rebound
NextMeta ==
    \/ ParseProgram(1, MetaDescriptions)
          /\ UNCHANGED <<nameVars, memberVars, minerVars, accVars, pushed, mergeVars, dataVars>>
    \/ ParseRoutine(1, 0, {Name_Main}, MetaDescriptions, {}, {})
          /\ UNCHANGED <<nameVars, memberVars, minerVars, accVars, pushed, mergeVars, dataVars>>
    \/ Rebind(MaxRebinds)
          /\ UNCHANGED <<nameVars, memberVars, minerVars, accVars, pushed, mergeVars, dataVars>>

SpecMeta == Init /\ [][NextMeta]_vars

NextData ==
    \E dim_string \in DimensionTexts :
        \E decorated \in {None} \cup {Some(l) : l \in ElementLists(dim_string)} :
            TagFromL5x(dim_string, decorated) /\ UNCHANGED <<nameVars, memberVars, minerVars, graphVars, accVars, pushed, mergeVars>>

SpecData == Init /\ [][NextData]_vars

\* a second description that gives the role DEVICE
Desc_DeviceNoEdits == <<"<", "@", "T", "Y", "P", "E", " ", "D", "E", "V", "I", "C", "E", ">", "<", "@", "N", "O", "E", "D", "I", "T", "S", ">">>

\* as for the roles above, with two texts that give the role DEVICE
NextDevice ==
    \/ ParseProgram(MaxMatched, {Desc_Device, Desc_DeviceNoEdits, Desc_Zone}) /\ merge = <<>>
          /\ UNCHANGED <<nameVars, memberVars, minerVars, accVars, pushed, mergeVars, dataVars>>
    \/ /\ merge = <<>>
       /\ Rebind(1)
       /\ UNCHANGED <<nameVars, memberVars, minerVars, accVars, pushed, mergeVars, dataVars>>
    \/ SecondController /\ UNCHANGED <<nameVars, memberVars, minerVars, dataVars>>
    \/ /\ rebinds = 1
       /\ ProgramListPushUpdates
       /\ UNCHANGED <<nameVars, memberVars, minerVars, dataVars>>

SpecDevice == Init /\ [][NextDevice]_vars

\* names of which the first token stands inside the second
Name_M1_M1A_Go == <<"M", "1", "_", "M", "1", "A", "_", "G", "o">>

Name_M2_M1B_Go == <<"M", "2", "_", "M", "1", "B", "_", "G", "o">>

Name_M2_M2A_Go == <<"M", "2", "_", "M", "2", "A", "_", "G", "o">>

\* two programs are read: the first holds a driver that is pushed to the
\* second, which holds up to MaxTargets routines
NextTokens ==
    \/ ParseProgram(2, {<<>>}) /\ pushed = <<>>
          /\ UNCHANGED <<nameVars, memberVars, minerVars, accVars, pushed, mergeVars, dataVars>>
    \/ /\ Len(controller.programs) = 1 /\ pushed = <<>>
       /\ ParseRoutine(1, 1, {Name_M01_PumpA_Start, Name_M1_M1A_Go}, {<<>>},
                       {Text_DriverRun}, {<<>>})
       /\ UNCHANGED <<nameVars, memberVars, minerVars, accVars, pushed, mergeVars, dataVars>>
    \/ /\ Len(controller.programs) = 2 /\ pushed = <<>>
       /\ ParseRoutine(MaxTargets, 0,
                       {Name_M02_PumpB_Start, Name_M02_PumpB_Stop, Name_M2_M1B_Go,
                        Name_M2_M2A_Go, Name_Main},
                       {<<>>}, {}, {})
       /\ UNCHANGED <<nameVars, memberVars, minerVars, accVars, pushed, mergeVars, dataVars>>
    \/ /\ Len(controller.programs) = 2
       /\ \E routine \in Range(heap[controller.programs[1]].routines) :
             PushDriverRoutine(routine, controller.programs[2])
       /\ UNCHANGED <<nameVars, memberVars, minerVars, mergeVars, dataVars>>

SpecTokens == Init /\ [][NextTokens]_vars

\* a controller with datatypes U1 and U2, a tag of U2 and a program is read
\* and rebound, then a second one in the same way, whose program has a main
\* routine that refers to the tag; the second controller pushes its updates
\* to the first, and the first has its tags renamed and is rebound
NextOwn ==
    \/ /\ controller.tags = <<>> /\ controller.programs = <<>>
       /\ ParseDataType(MaxMerged, MergedMembers, {<<>>})
       /\ UNCHANGED <<nameVars, memberVars, minerVars, accVars, pushed, mergeVars, dataVars>>
    \/ /\ UdtsOf(controller) = MaxMerged
       /\ ParseTag(1, {TagName(1)}, {UdtName(MaxMerged)}, {}, {<<>>})
       /\ UNCHANGED <<nameVars, memberVars, minerVars, accVars, pushed, mergeVars, dataVars>>
    \/ /\ controller.tags # <<>>
       /\ ParseProgram(1, {Desc_Zone})
       /\ UNCHANGED <<nameVars, memberVars, minerVars, accVars, pushed, mergeVars, dataVars>>
    \/ /\ other_obj # <<>>
       /\ ParseRoutine(1, MaxRungs, {Name_Main}, {Desc_Main}, {Text_T1}, {<<>>})
       /\ UNCHANGED <<nameVars, memberVars, minerVars, accVars, pushed, mergeVars, dataVars>>
    \/ /\ merge = <<>> /\ controller.programs # <<>>
       /\ Rebind(1)
       /\ UNCHANGED <<nameVars, memberVars, minerVars, accVars, pushed, mergeVars, dataVars>>
    \/ SecondController /\ UNCHANGED <<nameVars, memberVars, minerVars, dataVars>>
    \/ /\ rebinds = 1
       /\ ControllerPushUpdates
       /\ UNCHANGED <<nameVars, memberVars, minerVars, dataVars>>
    \/ RenameStringsOfOther({<<"1">>}, {<<"2">>}) /\ UNCHANGED <<nameVars, memberVars, minerVars, dataVars>>
    \/ RebindOther /\ UNCHANGED <<nameVars, memberVars, minerVars, dataVars>>

SpecOwn == Init /\ [][NextOwn]_vars

\* two controllers with a tag and a program are read and rebound, then a
\* third whose program has a main routine that refers to the tag; the third
\* pushes its updates to the first and to the second, in either order, and
\* the first has its tags renamed and is rebound
NextTargets ==
    \/ /\ controller.programs = <<>>
       /\ ParseTag(1, {TagName(1)}, {Str_DINT, Str_BOOL}, {}, {<<>>})
       /\ UNCHANGED <<nameVars, memberVars, minerVars, accVars, pushed, mergeVars, dataVars>>
    \/ /\ controller.tags # <<>>
       /\ ParseProgram(1, {Desc_Zone})
       /\ UNCHANGED <<nameVars, memberVars, minerVars, accVars, pushed, mergeVars, dataVars>>
    \/ /\ Len(other_obj) = 2
       /\ ParseRoutine(1, MaxRungs, {Name_Main}, {Desc_Main}, {Text_T1}, {<<>>})
       /\ UNCHANGED <<nameVars, memberVars, minerVars, accVars, pushed, mergeVars, dataVars>>
    \/ /\ merge = <<>> /\ controller.programs # <<>>
       /\ Rebind(1)
       /\ UNCHANGED <<nameVars, memberVars, minerVars, accVars, pushed, mergeVars, dataVars>>
    \/ AnotherController(2) /\ UNCHANGED <<nameVars, memberVars, minerVars, dataVars>>
    \/ /\ rebinds = 1 /\ Len(other_obj) = 2
       /\ \E k \in 1..2 : PushUpdatesTo(k)
       /\ UNCHANGED <<nameVars, memberVars, minerVars, dataVars>>
    \/ /\ 1 \in Merged
       /\ RenameStringsOfOther({<<"1">>}, {<<"2">>})
       /\ UNCHANGED <<nameVars, memberVars, minerVars, dataVars>>
    \/ /\ 1 \in Merged
       /\ RebindOther
       /\ UNCHANGED <<nameVars, memberVars, minerVars, dataVars>>

SpecTargets == Init /\ [][NextTargets]_vars

\* Member, Rung, Task and Tag elements are read, with well-formed and with
\* malformed numeric attributes
NextParse ==
    \/ \E meta \in {Str_DINT, Str_BIT}, dimension \in NumberTexts :
          MemberFromL5x(meta, dimension, None, FALSE)
             /\ UNCHANGED <<nameVars, minerVars, graphVars, accVars, pushed, mergeVars>>
    \/ \E number \in NumberTexts :
          RungFromL5x(number)
             /\ UNCHANGED <<nameVars, memberVars, minerVars, graphVars, accVars, pushed, mergeVars>>
    \/ \E priority \in NumberTexts, watchdog \in NumberTexts :
          TaskFromL5x(priority, watchdog)
             /\ UNCHANGED <<nameVars, memberVars, minerVars, graphVars, accVars, pushed, mergeVars>>
    \/ \E dim_string \in {d \in DimensionTexts : Len(d) <= 3} :
          TagFromL5x(dim_string, None)
             /\ UNCHANGED <<nameVars, memberVars, minerVars, graphVars, accVars, pushed, mergeVars>>

SpecParse == Init /\ [][NextParse]_vars

\* one tag of an atomic datatype is read, with or without one decorated
\* Element, or one tag of a user-defined datatype is made; its data is written
NextCodec ==
    \/ \E dim_string \in DimensionTexts :
          \E decorated \in {None} \cup {Some(l) : l \in {e \in ElementLists(dim_string) :
                                                          Len(e) = 1}} :
             xml_io = <<>> /\ TagFromL5x(dim_string, decorated)
                /\ UNCHANGED <<nameVars, memberVars, minerVars, graphVars, accVars, pushed, mergeVars>>
    \/ \E members \in StructMembers :
          xml_io = <<>> /\ TagOfStructure(members)
             /\ UNCHANGED <<nameVars, memberVars, minerVars, graphVars, accVars, pushed, mergeVars>>
    \/ WriteTagData
          /\ UNCHANGED <<nameVars, memberVars, minerVars, graphVars, accVars, pushed, mergeVars>>

SpecCodec == Init /\ [][NextCodec]_vars

\* datatypes whose members are of the two datatypes declared last are parsed,
\* then a controller tag of the last of them, a program with a program tag
\* of it and a routine with rungs over both tags; the controller is rebound
\* once the whole project is read, and the closure of a datatype, tag, rung, routine or program is taken
UdtsBefore == [k \in 1..Len(DigitSeq) |-> {UdtName(j) : j \in {k - 2, k - 1} \ {0, -1}}]

NextBound ==
    \/ /\ controller.tags = <<>> /\ controller.programs = <<>>
       /\ ParseDataType(MaxUdts, UdtsBefore, {<<>>})
       /\ UNCHANGED <<nameVars, memberVars, minerVars, accVars, pushed, mergeVars, dataVars>>
    \/ /\ UdtsOf(controller) = MaxUdts
       /\ ParseTag(1, {TagName(1)}, {UdtName(MaxUdts)}, {}, {<<>>})
       /\ UNCHANGED <<nameVars, memberVars, minerVars, accVars, pushed, mergeVars, dataVars>>
    \/ /\ controller.tags # <<>>
       /\ ParseProgram(1, {<<>>})
       /\ UNCHANGED <<nameVars, memberVars, minerVars, accVars, pushed, mergeVars, dataVars>>
    \/ ParseProgramTag(1, {Str_Q1}, {UdtName(MaxUdts)}, {})
          /\ UNCHANGED <<nameVars, memberVars, minerVars, accVars, pushed, mergeVars, dataVars>>
    \/ /\ controller.programs # <<>>
       /\ heap[LastProgram(controller)].tags # <<>>
       /\ ParseRoutine(1, MaxRungs, {RoutineName(1)}, {<<>>}, {Text_BothTags}, {<<>>})
       /\ UNCHANGED <<nameVars, memberVars, minerVars, accVars, pushed, mergeVars, dataVars>>
    \/ /\ UdtsOf(controller) = MaxUdts
       /\ controller.programs # <<>>
       /\ heap[LastProgram(controller)].routines # <<>>
       /\ Len(heap[heap[LastProgram(controller)].routines[1]].rungs) = MaxRungs
       /\ Rebind(1)
       /\ UNCHANGED <<nameVars, memberVars, minerVars, accVars, pushed, mergeVars, dataVars>>
    \/ \E e \in UserEntities(heap), include_root \in BOOLEAN :
          /\ rebinds = 1
          /\ GetDependencies(e, include_root)
          /\ UNCHANGED <<nameVars, memberVars, minerVars, accVars, pushed, mergeVars, dataVars>>

SpecBound == Init /\ [][NextBound]_vars

(***************************************************************************)
(* Claims                                                                  *)
(***************************************************************************)

\* what rebind resolves: every member's datatype reference, every tag's
\* datatype, every rung's tag and program-tag sets, every task's scheduled
\* programs and the description metadata of every entity
ResolvedState(h, c) ==
    [members |-> [d \in IdsOf(h, "DataType") |->
                      [i \in 1..Len(h[d].members) |-> h[d].members[i].datatype]],
     tags |-> [t \in IdsOf(h, "Tag") |-> h[t].datatype],
     rungs |-> [r \in IdsOf(h, "Routine") |->
                    [i \in 1..Len(h[r].rungs) |->
                         [tags |-> Range(h[r].rungs[i].tags),
                          program_tags |-> Range(h[r].rungs[i].program_tags),
                          description_properties |-> h[r].rungs[i].description_properties]]],
     tasks |-> [t \in IdsOf(h, "Task") |-> h[t].scheduled_programs],
     metadata |-> [e \in DOMAIN h |-> h[e].description_properties],
     controller |-> c.description_properties]

\* C1: Controller.rebind is idempotent: for every controller graph, what a
\* second rebind in a row leaves - member datatype references, alias tag
\* datatypes, rung tag and program-tag sets, scheduled programs, description
\* metadata - is what the first rebind left.
C1_RebindIdempotent ==
    [][(rebinds = 1 /\ rebinds' = 2) =>
           ResolvedState(heap', controller') = ResolvedState(heap, controller)]_vars

\* the characters the claim calls disallowed
Disallowed == {" ", ".", ",", "-", "/", "\\", "!", "@", "#", "$", "%", "^", "&", "*", "(", ")", "=", "+"}

\* C6: assigning to name a value with a space or another disallowed
\* punctuation character raises and leaves the name as it was before; a
\* value with no disallowed character becomes the new name.
C6_NameValidated ==
    IF \E c \in Disallowed : HasChar(nameArg, c)
    THEN nameRaised /\ name = namePrev
    ELSE ~nameRaised /\ name = nameArg

\* a rejected assignment of a value containing a space has happened
C6_Witness ==
    /\ HasChar(nameArg, " ")
    /\ nameRaised
    /\ name = namePrev
    /\ name # nameArg

\* C7: a member read as BIT is stored as BOOL; a stored BOOL is emitted as
\* BIT at dimension 0 and as BOOL at dimension 1 or more; any other type
\* name is emitted unchanged.
C7_BitBoolRoundTrip ==
    /\ declared = Str_BIT => member.datatype_meta_name = Str_BOOL
    /\ declared # Str_BIT => member.datatype_meta_name = declared
    /\ emitted # <<>> =>
          /\ (member.datatype_meta_name = Str_BOOL /\ member.dimensions = 0) =>
                 emitted[1].DataType = Str_BIT
          /\ (member.datatype_meta_name = Str_BOOL /\ member.dimensions >= 1) =>
                 emitted[1].DataType = Str_BOOL
          /\ (declared = Str_BIT /\ member.dimensions = 0) => emitted[1].DataType = Str_BIT
          /\ (declared = Str_BIT /\ member.dimensions >= 1) => emitted[1].DataType = Str_BOOL
          /\ declared \notin {Str_BIT, Str_BOOL} => emitted[1].DataType = declared

\* a member read as BIT with dimension 1 has been emitted as BOOL
C7_Witness ==
    /\ declared = Str_BIT
    /\ member.dimensions = 1
    /\ emitted # <<>>
    /\ emitted[1].DataType = Str_BOOL

(***************************************************************************)
(* Rung text miner: claims                                                 *)
(***************************************************************************)
Str_XIC == <<"X", "I", "C">>
Str_OTE == <<"O", "T", "E">>
Str_MOV == <<"M", "O", "V">>
Str_Start == <<"S", "t", "a", "r", "t">>
Str_Motor1 == <<"M", "o", "t", "o", "r", "1">>
Str_Setpoint == <<"S", "e", "t", "p", "o", "i", "n", "t">>
Str_Output == <<"O", "u", "t", "p", "u", "t">>

\* C8 (as claimed): the mined mnemonics of XIC(Start)OTE(Motor1) are exactly
\* {XIC, OTE} and those of MOV(Setpoint[2],Output) exactly {MOV}, with no
\* other element.
C8_MnemonicsExact ==
    mined =>
        /\ rungText = Text_XIC_OTE => instrMetas = {Str_XIC, Str_OTE}
        /\ rungText = Text_MOV => instrMetas = {Str_MOV}

\* s[a..b] is an operand of a MNEMONIC(args) call of the text s: it lies in
\* one ')'-delimited fragment, after the first '(' of that fragment, and is
\* delimited by that '(' or a ',' on the left and by a ',', a ')' or the end
\* of the text on the right
IsOperand(s, a, b) ==
    /\ 1 <= a /\ a <= b /\ b <= Len(s)
    /\ \A i \in a..b : s[i] \notin {",", ")"}
    /\ b = Len(s) \/ s[b + 1] \in {",", ")"}
    /\ \E p \in 1..(a - 1) :
          /\ s[p] = "("
          /\ \A i \in p..b : s[i] # ")"
          /\ \A i \in 1..(p - 1) : s[i] = "(" => \E k \in (i + 1)..(p - 1) : s[k] = ")"
          /\ p = a - 1 \/ s[a - 1] = ","

\* the part of s before its first c (all of s when it has no c)
PartBefore(s, c) ==
    CHOOSE t \in {SubSeq(s, 1, k) : k \in 0..Len(s)} :
        /\ \A i \in 1..Len(t) : t[i] # c
        /\ Len(t) = Len(s) \/ s[Len(t) + 1] = c

\* a purely numeric token: digits, possibly between blanks
PurelyNumeric(t) ==
    \E i, j \in 1..Len(t) :
        /\ i <= j
        /\ \A k \in i..j : t[k] \in Digits
        /\ \A k \in 1..(i - 1) : t[k] = " "
        /\ \A k \in (j + 1)..Len(t) : t[k] = " "

\* the candidate tag names the claim describes for the text s
ClaimedTagNames(s) ==
    LET spans == {ab \in (1..Len(s)) \X (1..Len(s)) : IsOperand(s, ab[1], ab[2])}
        tokens == {PartBefore(SubSeq(s, ab[1], ab[2]), ".") : ab \in spans}
        kept == {t \in tokens :
                    /\ t # <<>>
                    /\ ~PurelyNumeric(t)
                    /\ \A i \in 1..Len(t) : t[i] \notin {",", "\"", "'", "?", ":"}}
    IN  {PartBefore(t, "[") : t \in kept}

\* C9: the mined operand tokens are, for every operand of every call, the
\* part before its first '.', less purely numeric tokens and tokens with
\* illegal punctuation, with the [...] suffix removed; XIC(Start)OTE(Motor1)
\* gives exactly {Start, Motor1} and MOV(Setpoint[2],Output) exactly
\* {Setpoint, Output}.
C9_OperandTokens ==
    mined =>
        /\ rungText = Text_XIC_OTE => tagMetas = {Str_Start, Str_Motor1}
        /\ rungText = Text_MOV => tagMetas = {Str_Setpoint, Str_Output}
        /\ tagMetas = ClaimedTagNames(rungText)

\* the mining of MOV(Setpoint[2],Output) has run and stripped the index
C9_Witness ==
    /\ mined
    /\ rungText = Text_MOV
    /\ Str_Setpoint \in tagMetas

(***************************************************************************)
(* Driver propagation                                                      *)
(***************************************************************************)
\* every occurrence of a0 replaced by b0 and of a1 by b1
SubstituteBoth(s, name_split, other_name_split) ==
    Replace(Replace(s, name_split[1], other_name_split[1]), name_split[2], other_name_split[2])

\* C10: when a driver routine with name tokens (a0, a1, suffix) is pushed
\* onto a target routine with tokens (b0, b1, same suffix), the clone placed
\* in the target has a0 replaced by b0 and a1 by b1 in the routine name, in
\* every rung's text and in every referenced tag's name, and keeps the
\* suffix tokens.
C10_BothTokensSubstituted ==
    \A k \in 1..Len(pushed) : \A u \in 1..Len(pushed[k].updates) :
        LET update == pushed[k].updates[u]
            source == heap[pushed[k].routine]
        IN  update.clone # None =>
                LET clone == heap[update.clone]
                IN  /\ update.clone \in Range(heap[pushed[k].other_prog].routines)
                    /\ clone.name = SubstituteBoth(source.name, update.name_split,
                                                   update.other_name_split)
                    /\ SubSeq(Split(clone.name, "_"), 3, Len(Split(clone.name, "_")))
                           = SubSeq(update.name_split, 3, Len(update.name_split))
                    /\ Len(clone.rungs) = Len(source.rungs)
                    /\ \A i \in 1..Len(source.rungs) :
                          /\ clone.rungs[i].text =
                                 SubstituteBoth(source.rungs[i].text, update.name_split,
                                                update.other_name_split)
                          /\ Len(clone.rungs[i].tags) = Len(source.rungs[i].tags)
                          /\ \A j \in 1..Len(source.rungs[i].tags) :
                                heap[clone.rungs[i].tags[j]].name =
                                    SubstituteBoth(heap[source.rungs[i].tags[j]].name,
                                                   update.name_split, update.other_name_split)

(***************************************************************************)
(* Propagation                                                             *)
(***************************************************************************)
\* the routines of a list whose name is similar enough to the name of routine
SimilarTo(h, routines, routine, similarity_gain) ==
    {r \in Range(routines) : AtLeast(ratio(h[routine].name, h[r].name), similarity_gain)}

\* C11: with similarity matching, the routine of the target program that is
\* replaced by the pushed routine is the one of the highest ratio among those
\* that reach the threshold; when none reaches it the pushed routine is
\* appended and no routine of the target is removed.
C11_BestMatchReplaced ==
    [][(/\ merge = <<>> /\ merge' # <<>>
        /\ merge'[1].op = "push_routine" /\ merge'[1].use_similarity_finding)
       => LET m == merge'[1]
              before == heap[m.other_program].routines
              after == heap'[m.other_program].routines
              close == SimilarTo(heap, before, m.routine, m.similarity_gain)
          IN  IF close = {} THEN after = Append(before, m.routine)
              ELSE \E best \in close :
                      /\ \A r \in close :
                            AtLeast(ratio(heap[m.routine].name, heap[best].name),
                                    ratio(heap[m.routine].name, heap[r].name))
                      /\ Range(after) = (Range(before) \ {best}) \cup {m.routine}]_vars

\* the driver routines of a program whose name has fewer than 3 tokens
Malformed(h, p) ==
    {d \in Range(driver_routines(h, p)) : Len(Split(h[d].name, "_")) < 3}

\* the routines of other_prog that a driver routine is propagated to
DriverTargets(h, d, other_prog) ==
    {t \in Range(h[other_prog].routines) :
        /\ Len(Split(h[t].name, "_")) >= 3
        /\ SubSeq(Split(h[t].name, "_"), 3, Len(Split(h[t].name, "_")))
               = SubSeq(Split(h[d].name, "_"), 3, Len(Split(h[d].name, "_")))}

\* C12: when a driver routine of the pushed program has a name of fewer than
\* 3 tokens, the error names that routine and only its merge is aborted: the
\* other driver routines and the internal routines of the program are still
\* propagated.
C12_MalformedDriverIsolated ==
    [][(/\ merge = <<>> /\ merge' # <<>>
        /\ merge'[1].op = "program_push_updates"
        /\ Malformed(heap, merge'[1].prog) # {})
       => LET m == merge'[1]
              after == Range(heap'[m.other_prog].routines)
          IN  /\ m.raised # None
              /\ m.raised[1].routine \in Malformed(heap, m.prog)
              /\ \A i \in Range(internal_routines(heap, m.prog)) : i \in after
              /\ \A d \in Range(driver_routines(heap, m.prog)) \ Malformed(heap, m.prog) :
                    \A t \in DriverTargets(heap, d, m.other_prog) : t \notin after]_vars

\* C14: after Program.push_updates of a program with a MAIN routine R, the
\* target program holds exactly one routine of R's name, with R's rungs, and
\* holds by name every program tag that R's rungs reference.
C14_MainRoutineReplaced ==
    [][(/\ merge = <<>> /\ merge' # <<>>
        /\ merge'[1].op = "program_push_updates"
        /\ merge'[1].raised = None
        /\ main_routine(heap, merge'[1].prog) # None)
       => LET m == merge'[1]
              R == main_routine(heap, m.prog)
              after == heap'[m.other_prog].routines
              named == {i \in 1..Len(after) : heap'[after[i]].name = heap[R].name}
          IN  /\ Cardinality(named) = 1
              /\ \A i \in named : heap'[after[i]].rungs = heap[R].rungs
              /\ \A k \in 1..Len(heap[R].rungs) :
                    \A t \in Range(heap[R].rungs[k].program_tags) :
                       \E x \in Range(heap'[m.other_prog].tags) :
                          heap'[x].name = heap[t].name]_vars

\* C13: ProgramList.push_updates calls Program.push_updates for a source
\* program and a target program exactly when their roles are equal or the
\* role of the source program is DEVICE, whatever the role of the target
\* program, a missing role included
C13_PushedExactlyWhenRolesMatch ==
    [][(/\ merge = <<>> /\ merge' # <<>>
        /\ merge'[1].op = "programs_push_updates"
        /\ merge'[1].raised = None)
       => \A i \in 1..Len(controller.programs), j \in 1..Len(other_obj[1].programs) :
             (\E k \in 1..Len(merge'[1].pushes) :
                  merge'[1].pushes[k] = <<controller.programs[i], other_obj[1].programs[j]>>)
             <=> \/ heap[controller.programs[i]].description_properties.type
                        = heap[other_obj[1].programs[j]].description_properties.type
                 \/ heap[controller.programs[i]].description_properties.type
                        = Some(Str_DEVICE)]_vars

\* the user-defined datatypes among the dependencies of a push
Propagated(h, datatypes) ==
    {d \in Range(datatypes) : ~h[d].is_atomic /\ ~h[d].is_base_logix_instruction}

\* the members of two datatypes declare the same names and types
SameMembers(a, b) ==
    /\ Len(a.members) = Len(b.members)
    /\ \A i \in 1..Len(a.members) :
          /\ a.members[i].name = b.members[i].name
          /\ a.members[i].datatype_meta_name = b.members[i].datatype_meta_name

\* C17: after Controller.push_updates, every user-defined datatype among the
\* dependencies of the propagated tags (the datatypes of the tags and, by
\* recursion, of their members) that the target had by name is, in the
\* target's datatypes, a new object: neither the target's old one nor the
\* source's own, with the members of the source's, whatever its description
C17_ReplacedByDeepCopy ==
    [][(/\ merge = <<>> /\ merge' # <<>>
        /\ merge'[1].op = "controller_push_updates"
        /\ merge'[1].raised = None)
       => \A d \in Propagated(heap, merge'[1].dependencies.datatypes) :
             by_name(heap, other_obj[1].datatypes, heap[d].name) # None
             => \E i \in 1..Len(other_obj'[1].datatypes) :
                   /\ heap'[other_obj'[1].datatypes[i]].name = heap[d].name
                   /\ other_obj'[1].datatypes[i] # d
                   /\ other_obj'[1].datatypes[i] \notin Range(other_obj[1].datatypes)
                   /\ SameMembers(heap'[other_obj'[1].datatypes[i]], heap[d])]_vars

\* the lists of the entity graph that own named entities
OwningLists(h, c) ==
    {c.datatypes, c.modules, c.add_on_instructions, c.tags, c.programs, c.tasks}
        \cup {h[p].tags : p \in IdsOf(h, "Program")}
        \cup {h[p].routines : p \in IdsOf(h, "Program")}

\* C15: in every owning list, after any sequence of append, extend, remove
\* and rename_strings, no two elements have the same name
C15_NamesUniqueInList ==
    \A lst \in OwningLists(heap, controller) :
       \A i, j \in 1..Len(lst) : heap[lst[i]].name = heap[lst[j]].name => i = j

\* the entities of a list that the names of a set resolve to
Resolved(h, lst, names) == {by_name(h, lst, n) : n \in names} \ {None}

\* the sets of a rung of the program p are what its text yields now: a name
\* is a controller tag, else a tag of the program
MinedNow(h, c, p, rung) ==
    /\ Range(rung.tags) = Resolved(h, c.tags, get_tag_metas(rung.text))
    /\ Range(rung.program_tags)
           = Resolved(h, h[p].tags,
                      {n \in get_tag_metas(rung.text) : by_name(h, c.tags, n) = None})
    /\ Range(rung.add_on_instructions)
           = Resolved(h, c.add_on_instructions, get_instruction_metas(rung.text))

\* C16: after every Controller.rebind, the first as well as one run after
\* the tags were renamed, the tags, program tags and add-on instructions of
\* each rung are exactly those its current text yields from the current
\* collections
C16_RungSetsMinedOnRebind ==
    [][rebinds' = rebinds + 1
       => \A i \in 1..Len(controller'.programs) :
             \A j \in 1..Len(heap'[controller'.programs[i]].routines) :
                \A k \in 1..Len(heap'[heap'[controller'.programs[i]].routines[j]].rungs) :
                   MinedNow(heap', controller', controller'.programs[i],
                            heap'[heap'[controller'.programs[i]].routines[j]].rungs[k])]_vars

\* every member of every datatype of the controller c refers to the entry of
\* c's datatypes that has the member's declared type name, or to nothing
MembersBound(h, c) ==
    \A i \in 1..Len(c.datatypes) :
       \A k \in 1..Len(h[c.datatypes[i]].members) :
          h[c.datatypes[i]].members[k].datatype
              = by_name(h, c.datatypes, h[c.datatypes[i]].members[k].datatype_meta_name)

\* C18: after Controller.rebind, the one of the end of a push of updates
\* included, which follows the replacement of datatypes of the target, each
\* member's datatype is the current entry of its declared type name in the
\* controller's datatypes, and empty when there is none
C18_MembersBoundOnRebind ==
    [][/\ rebinds' = rebinds + 1 => MembersBound(heap', controller')
       /\ (/\ merge = <<>> /\ merge' # <<>>
           /\ merge'[1].op = "controller_push_updates"
           /\ merge'[1].raised = None)
          => MembersBound(heap', other_obj'[1])]_vars

\* the alias tags of a list of tags
AliasTags(h, tags) == {t \in Range(tags) : h[t].alias_for # <<>>}

\* after a step, the alias tag t of the list scope has the datatype of the
\* tag of scope it is an alias for, or the datatype it had when there is none
AliasBoundIn(h, h1, scope, t) ==
    IF by_name(h1, scope, h1[t].alias_for) # None
    THEN h1[t].datatype = h1[by_name(h1, scope, h1[t].alias_for)].datatype
    ELSE h1[t].datatype = h[t].datatype

\* C19: after rebind, an alias tag of the controller has the datatype of the
\* controller tag it names, an alias tag of a program whose target is a tag
\* of that program has the datatype of that program tag, and an alias whose
\* target exists in neither list keeps the datatype it had
C19_AliasBoundInOwnScope ==
    [][rebinds' = rebinds + 1
       => /\ \A t \in AliasTags(heap', controller'.tags) :
                AliasBoundIn(heap, heap', controller'.tags, t)
          /\ \A i \in 1..Len(controller'.programs) :
                \A t \in AliasTags(heap', heap'[controller'.programs[i]].tags) :
                   \/ AliasBoundIn(heap, heap', heap'[controller'.programs[i]].tags, t)
                   \/ /\ by_name(heap', heap'[controller'.programs[i]].tags,
                                 heap'[t].alias_for) = None
                      /\ by_name(heap', controller'.tags, heap'[t].alias_for) # None]_vars

\* the programs of a list that a schedule names, in the order of the
\* schedule; a name of no program is dropped
RECURSIVE InScheduleOrder(_, _, _)
InScheduleOrder(h, programs, names) ==
    IF names = <<>> THEN <<>>
    ELSE (IF by_name(h, programs, Head(names)) = None THEN <<>>
          ELSE <<by_name(h, programs, Head(names))>>)
             \o InScheduleOrder(h, programs, Tail(names))

\* C20: after rebind, the scheduled programs of every task are the
\* controller's programs its schedule names, in the order of the schedule
C20_ScheduledInScheduleOrder ==
    [][rebinds' = rebinds + 1
       => \A i \in 1..Len(controller'.tasks) :
             heap'[controller'.tasks[i]].scheduled_programs
                 = InScheduleOrder(heap', controller'.programs,
                                   heap'[controller'.tasks[i]].scheduled_meta_programs)]_vars

\* the programs of a controller and their routines
Described_entities(h, c) ==
    Range(c.programs) \cup UNION {Range(h[p].routines) : p \in Range(c.programs)}

\* the text between each '<' and the next '>' after it, in order
RECURSIVE Bracketed(_)
Bracketed(s) ==
    IF ~\E i \in 1..Len(s) : s[i] = "<" THEN <<>>
    ELSE LET i == CHOOSE k \in 1..Len(s) : s[k] = "<" /\ \A j \in 1..(k - 1) : s[j] # "<"
             rest == SubSeq(s, i + 1, Len(s))
         IN  IF ~\E k \in 1..Len(rest) : rest[k] = ">" THEN <<>>
             ELSE LET e == CHOOSE k \in 1..Len(rest) :
                               rest[k] = ">" /\ \A j \in 1..(k - 1) : rest[j] # ">"
                  IN  <<SubSeq(rest, 1, e - 1)>> \o Bracketed(SubSeq(rest, e + 1, Len(rest)))

\* C21: after rebind, the metadata of an entity has editable false when its
\* description holds the property @NOEDITS and editable true in every other
\* case, an empty description and one without properties included
C21_EditableUnlessNoEdits ==
    [][rebinds' = rebinds + 1
       => \A e \in Described_entities(heap', controller') :
             heap'[e].description_properties.editable
                 = Some(~\E i \in 1..Len(Bracketed(heap'[e].description)) :
                             Bracketed(heap'[e].description)[i] = Str_AtNOEDITS)]_vars

\* C22: the scan a rebind makes of a description gives, in order, the text
\* between each '<' and the next '>', wherever free text stands, and the
\* metadata of the entity are those of that list
C22_ScanGivesEveryProperty ==
    [][rebinds' = rebinds + 1
       => \A e \in Described_entities(heap', controller') :
             /\ property_list_from_string(heap'[e].description, <<>>)
                    = Bracketed(heap'[e].description)
             /\ heap'[e].description_properties
                    = get_properties(Bracketed(heap'[e].description))]_vars

\* the routine r of the target program is one the driver is propagated to
Candidate(h, routine, r) ==
    /\ Len(Split(h[r].name, "_")) >= 3
    /\ SubSeq(Split(h[r].name, "_"), 3, Len(Split(h[r].name, "_")))
           = SubSeq(Split(h[routine].name, "_"), 3, Len(Split(h[routine].name, "_")))

\* C25: after a driver is propagated, the target program holds as many
\* routines as before, for every routine of it whose name agrees with the name
\* of the driver from the third token on it holds a routine of that exact
\* name, and its other routines are the objects they were, unchanged
C25_ReplacedUnderTheSameName ==
    [][(pushed = <<>> /\ pushed' # <<>> /\ ~pushed'[1].raised)
       => /\ Len(heap'[pushed'[1].other_prog].routines)
                = Len(heap[pushed'[1].other_prog].routines)
          /\ \A r \in Range(heap[pushed'[1].other_prog].routines) :
                IF Candidate(heap, pushed'[1].routine, r)
                THEN \E x \in Range(heap'[pushed'[1].other_prog].routines) :
                         heap'[x].name = heap[r].name
                ELSE /\ r \in Range(heap'[pushed'[1].other_prog].routines)
                     /\ heap'[r] = heap[r]]_vars

\* the source programs whose description the claim has written to a target
\* program: those of the target's role, when that role is not DEVICE
Writers(h, sources, t) ==
    SelectSeq(sources,
              LAMBDA p : /\ ~Falsy(h[p].description_properties.type)
                         /\ h[p].description_properties.type = h[t].description_properties.type
                         /\ h[p].description_properties.type # Some(Str_DEVICE))

\* C24: ProgramList.push_updates leaves the description of a target program
\* as it was unless a source program has the role of the target program and
\* that role is not DEVICE, and then the description is that of the last such
\* source program
C24_DescriptionKeptForDevice ==
    [][(/\ merge = <<>> /\ merge' # <<>>
        /\ merge'[1].op = "programs_push_updates"
        /\ merge'[1].raised = None)
       => \A j \in 1..Len(other_obj[1].programs) :
             heap'[other_obj[1].programs[j]].description
                = IF Writers(heap, controller.programs, other_obj[1].programs[j]) = <<>>
                  THEN heap[other_obj[1].programs[j]].description
                  ELSE heap[Writers(heap, controller.programs, other_obj[1].programs[j])[
                                Len(Writers(heap, controller.programs,
                                            other_obj[1].programs[j]))]].description]_vars

\* the name of the datatype a tag or a member refers to, empty for none
DatatypeName(h, d) == IF d = None THEN <<>> ELSE h[d].name

\* what a controller holds, by value: its programs with their routines, rung
\* texts, rung tag sets and tags, its tags and its datatypes
Holdings(h, c) ==
    [programs |->
         [i \in 1..Len(c.programs) |->
              [name |-> h[c.programs[i]].name,
               description |-> h[c.programs[i]].description,
               tags |-> [k \in 1..Len(h[c.programs[i]].tags) |->
                             h[h[c.programs[i]].tags[k]].name],
               routines |->
                   [k \in 1..Len(h[c.programs[i]].routines) |->
                        [name |-> h[h[c.programs[i]].routines[k]].name,
                         rungs |->
                             [j \in 1..Len(h[h[c.programs[i]].routines[k]].rungs) |->
                                  [text |-> h[h[c.programs[i]].routines[k]].rungs[j].text,
                                   tags |-> {h[t].name :
                                                t \in Range(h[h[c.programs[i]].routines[k]]
                                                                .rungs[j].tags)}]]]]]],
     tags |-> [i \in 1..Len(c.tags) |->
                   [name |-> h[c.tags[i]].name,
                    datatype |-> DatatypeName(h, h[c.tags[i]].datatype)]],
     datatypes |->
         [i \in 1..Len(c.datatypes) |->
              [name |-> h[c.datatypes[i]].name,
               members |-> [k \in 1..Len(h[c.datatypes[i]].members) |->
                                [name |-> h[c.datatypes[i]].members[k].name,
                                 datatype |->
                                     DatatypeName(h, h[c.datatypes[i]].members[k].datatype)]]]]]

\* C26: Controller.push_updates, with the rebind of the target that ends it,
\* and every later rename_strings or rebind of the target leave what the
\* source controller holds - programs, routines, rung texts, rung tag sets,
\* tags and datatypes - as it was
C26_SourceKept ==
    [][(other_obj # <<>> /\ merge' # <<>> /\ merge'[1].op = "controller_push_updates"
        /\ merge'[1].raised = None)
       => Holdings(heap', controller') = Holdings(heap, controller)]_vars

\* the objects a controller holds and can change: its programs, their
\* routines and tags, its tags and its user-defined datatypes
Held(h, c) ==
    Range(c.programs) \cup Range(c.tags)
    \cup {d \in Range(c.datatypes) : ~h[d].is_atomic}
    \cup UNION {Range(h[p].routines) \cup Range(h[p].tags) : p \in Range(c.programs)}

\* C27: once updates were pushed to the second of two targets, the push of
\* updates to the first and every later rename_strings or rebind of the first
\* leave what the second holds as it was, and the two targets hold no object
\* in common
C27_TargetsIndependent ==
    [][(/\ Len(other_obj) = 2 /\ 2 \in Merged
        /\ merge'[1].raised = None
        /\ heap' # heap \/ other_obj' # other_obj)
       => /\ Holdings(heap', other_obj'[2]) = Holdings(heap, other_obj[2])
          /\ Held(heap', other_obj'[1]) \cap Held(heap', other_obj'[2]) = {}]_vars

(***************************************************************************)
(* Tag data                                                                *)
(***************************************************************************)
\* the tag was read with one to three extents, each at least 1
ReadWithExtents ==
    /\ xml_io # <<>>
    /\ xml_io[1].op = "tag"
    /\ Len(Declared(xml_io[1].Dimensions)) \in 1..3
    /\ \A i \in 1..Len(Declared(xml_io[1].Dimensions)) : Declared(xml_io[1].Dimensions)[i] >= 1

\* C23: a tag of an atomic datatype read with 1, 2 or 3 dimensions holds an
\* Array node whose nested storage has as many levels as there are dimensions
\* and d1, d1*d2 or d1*d2*d3 cells, every cell 0 before decoding, and decoding
\* Element nodes whose indices lie in bounds raises nothing and stores into
\* cells of that storage
C23_ArrayOfDeclaredRank ==
    ReadWithExtents =>
        /\ the_tag.data.Type = "Array"
        /\ \A p \in DOMAIN the_tag.data.Dimensions.cells :
               Len(p) = Len(Declared(xml_io[1].Dimensions))
        /\ Cardinality(DOMAIN the_tag.data.Dimensions.cells)
               = Product(Declared(xml_io[1].Dimensions))
        /\ xml_io[1].decorated = None =>
               \A p \in DOMAIN the_tag.data.Dimensions.cells :
                   the_tag.data.Dimensions.cells[p] = PyInt(0)
        /\ xml_io[1].raised = "none"

\* C28: reading a Member, a Rung, a Task or a Tag element raises no error,
\* whatever the text of its Dimension, Number, Priority, Watchdog or
\* Dimensions attribute, and a tag whose Dimensions text is malformed has no
\* dimensions
C28_MalformedNumbersTolerated ==
    xml_io # <<>> =>
        /\ xml_io[1].raised = "none"
        /\ (xml_io[1].op = "tag" /\ Declared(xml_io[1].Dimensions) = <<>>)
               => the_tag.dimensions = NoDimensions

\* C29: the node written for the data of a tag holds, for every array member
\* of a structure, one Element child only, that of the first cell, however
\* many cells the member holds, and for an Array at the top one Element
\* child for each cell of the array
C29_OneElementForArrayMember ==
    (xml_io # <<>> /\ xml_io[1].op = "write" /\ xml_io[1].raised = "none") =>
        /\ the_tag.data.Type = "Structure" =>
               \A i \in 1..Len(the_tag.data.Members) :
                   the_tag.data.Members[i].Type = "ArrayMember" =>
                       xml_io[1].node.Members[i].Elements
                           = <<Element(<<"[", "0", "]">>,
                                       ValueText(the_tag.data.Members[i].Dimensions.cells[<<0>>]))>>
        /\ the_tag.data.Type = "Array" =>
               /\ Len(xml_io[1].node.Elements)
                      = Cardinality(DOMAIN the_tag.data.Dimensions.cells)
               /\ \A p \in DOMAIN the_tag.data.Dimensions.cells :
                      \E k \in 1..Len(xml_io[1].node.Elements) :
                          xml_io[1].node.Elements[k]
                              = Element(IndexText(p), ValueText(the_tag.data.Dimensions.cells[p]))

\* the data of a structure with an array member of several cells was written,
\* and so was an Array of several cells
C29_ArrayMemberWritten ==
    /\ xml_io # <<>> /\ xml_io[1].op = "write" /\ xml_io[1].raised = "none"
    /\ the_tag.data.Type = "Structure"
    /\ \E i \in 1..Len(the_tag.data.Members) :
          /\ the_tag.data.Members[i].Type = "ArrayMember"
          /\ Cardinality(DOMAIN the_tag.data.Members[i].Dimensions.cells) >= 2
          /\ Len(xml_io[1].node.Members[i].Elements) = 1

(***************************************************************************)
(* Accumulation of closures                                                *)
(***************************************************************************)
\* no bucket of deps holds two entries of one name
NoDuplicateNames(h, deps) ==
    \A b \in Buckets : \A i, j \in 1..Len(deps[b]) :
        i # j => h[deps[b][i]].name # h[deps[b][j]].name

\* C3: the result of get_dependencies on any entity, and what any sequence
\* of extend and safe_add_item calls accumulates from the empty set, holds
\* no two entries of one name in any bucket; extending a closure with
\* itself leaves every bucket as it was, entries and order.
C3_AccumulationDuplicateFree ==
    /\ [](/\ NoDuplicateNames(heap, acc)
          /\ \A i \in 1..Len(depsResult) :
                /\ NoDuplicateNames(heap, depsResult[i].deps)
                /\ extend(heap, depsResult[i].deps, depsResult[i].deps) = depsResult[i].deps)
    /\ [][accOp' = "extend_self" => acc' = acc]_vars

\* a closure of two entries in one bucket, one of them of a name another
\* object also has, has been extended with itself
C3_Witness ==
    /\ accOp = "extend_self"
    /\ \E b \in Buckets :
          /\ Len(acc[b]) >= 2
          /\ \E i \in 1..Len(acc[b]) : \E o \in DOMAIN heap :
                o # acc[b][i] /\ heap[o].name = heap[acc[b][i]].name

(***************************************************************************)
(* Dependency closure of datatypes and add-on instructions                 *)
(***************************************************************************)
\* the call whose result depsResult holds is get_dependencies(e, r)
Called(e, r) == depsCall = <<e, r>>

BucketNames == DOMAIN PyLogixDependencies

\* C2: a get_dependencies call on a datatype that is atomic or a base
\* instruction returns a dependency set of seven buckets that are all empty,
\* for include_root true and for include_root false, whatever members the
\* datatype has.
C2_TerminalClosureEmpty ==
    \A e \in IdsOf(heap, "DataType"), r \in BOOLEAN :
        (Called(e, r) /\ (heap[e].is_atomic \/ heap[e].is_base_logix_instruction)) =>
            /\ depsResult[1].raised = None
            /\ Cardinality(DOMAIN depsResult[1].deps) = 7
            /\ \A b \in DOMAIN depsResult[1].deps : depsResult[1].deps[b] = <<>>

\* the closure of a base instruction whose members are resolved has been
\* taken with include_root
C2_Witness ==
    \E e \in IdsOf(heap, "DataType") :
        /\ Called(e, TRUE)
        /\ heap[e].is_base_logix_instruction
        /\ \E i \in 1..Len(heap[e].members) : heap[e].members[i].datatype # None

\* the datatypes the members of d refer to, once resolved
MemberRefs(h, d) == {h[d].members[i].datatype : i \in 1..Len(h[d].members)} \ {None}

RECURSIVE ReachableWithin(_, _, _)
ReachableWithin(h, S, n) ==
    IF n = 0 THEN S
    ELSE ReachableWithin(h, S \cup UNION {MemberRefs(h, x) : x \in S}, n - 1)

\* the datatypes reachable from d through one or more member references
ReachableFrom(h, d) == ReachableWithin(h, MemberRefs(h, d), Cardinality(DOMAIN h))

\* C4: for a datatype d that is neither atomic nor a base instruction, the
\* datatypes bucket of get_dependencies(d, include_root) holds exactly d if
\* and only if include_root is true, and every non-atomic,
\* non-base-instruction datatype reachable from d through one or more
\* resolved member references, at any depth; every other bucket is empty.
C4_DataTypeClosureExact ==
    \A e \in IdsOf(heap, "DataType"), r \in BOOLEAN :
        (Called(e, r) /\ ~heap[e].is_atomic /\ ~heap[e].is_base_logix_instruction) =>
            /\ depsResult[1].raised = None
            /\ Range(depsResult[1].deps.datatypes) =
                   (IF r THEN {e} ELSE {}) \cup
                   {x \in ReachableFrom(heap, e) :
                        ~heap[x].is_atomic /\ ~heap[x].is_base_logix_instruction}
            /\ \A b \in BucketNames \ {"datatypes"} : depsResult[1].deps[b] = <<>>

\* a closure taken without the root holds a datatype that no member of the
\* root refers to directly, and the root has a base-instruction member too
C4_Witness ==
    \E e \in IdsOf(heap, "DataType") :
        /\ Called(e, FALSE)
        /\ ~heap[e].is_atomic /\ ~heap[e].is_base_logix_instruction
        /\ \E x \in Range(depsResult[1].deps.datatypes) : x \notin MemberRefs(heap, e)
        /\ \E y \in MemberRefs(heap, e) : heap[y].is_base_logix_instruction

\* the local tags and the parameters of an add-on instruction
AoiElements(h, a) == Range(h[a].tags) \cup Range(h[a].parameters)

\* C5: the closure of an add-on instruction is the union of the closures of
\* its local tags and parameters, and the non-atomic, non-base-instruction
\* datatype of each local tag and parameter is itself in the datatypes
\* bucket, for include_root true and for include_root false.
C5_AoiClosureHoldsElementTypes ==
    \A e \in IdsOf(heap, "AddOnInstructionDefinition"), r \in BOOLEAN :
        (Called(e, r) /\ depsResult[1].raised = None) =>
            \A el \in AoiElements(heap, e) :
                (/\ el.datatype # None
                 /\ ~heap[el.datatype].is_atomic
                 /\ ~heap[el.datatype].is_base_logix_instruction) =>
                    el.datatype \in Range(depsResult[1].deps.datatypes)

(***************************************************************************)
(* Termination and size of a closure                                       *)
(***************************************************************************)
\* the datatypes the members of d refer to, once resolved
MemberTypesOf(h, d) ==
    {h[d].members[i].datatype : i \in 1..Len(h[d].members)} \ {None}

\* the datatypes reached from those of ds in at most k more references
RECURSIVE ReachIn(_, _, _)
ReachIn(h, ds, k) ==
    IF k = 0 \/ UNION {MemberTypesOf(h, d) : d \in ds} \subseteq ds THEN ds
    ELSE ReachIn(h, ds \cup UNION {MemberTypesOf(h, d) : d \in ds}, k - 1)

\* the datatypes reached from d through one reference or more
ReachedFrom(h, d) == ReachIn(h, MemberTypesOf(h, d), Cardinality(IdsOf(h, "DataType")))

NoSelfReference(h) == \A d \in IdsOf(h, "DataType") : d \notin ReachedFrom(h, d)

\* the datatypes DataType.get_dependencies of d calls itself on
RecursedOn(h, d) ==
    IF IsTerminal(h[d]) THEN {}
    ELSE {h[d].members[i].datatype :
             i \in {j \in 1..Len(h[d].members) : IsDependantMember(h, h[d].members[j])}}

\* C30: in a graph where no datatype is reached from itself through resolved
\* member datatype references, get_dependencies of a datatype, tag, rung,
\* routine or program terminates - every call DataType.get_dependencies makes
\* on itself is on a datatype from which strictly fewer datatypes are reached,
\* and the call returns - and the datatypes bucket of the result holds at
\* most as many entries as there are user-defined datatypes in the graph.
C30_ClosureTerminatesBounded ==
    NoSelfReference(heap) =>
        /\ \A d \in IdsOf(heap, "DataType") : \A t \in RecursedOn(heap, d) :
              Cardinality(ReachedFrom(heap, t)) < Cardinality(ReachedFrom(heap, d))
        /\ \A e \in UserEntities(heap), r \in BOOLEAN :
              (Called(e, r) /\ e[1] \in {"DataType", "Tag", "Rung", "Routine", "Program"}) =>
                  /\ depsResult[1].raised = None
                  /\ Len(depsResult[1].deps.datatypes) <= UdtCount(heap)

\* the closure of a program was taken whose tags are of a datatype with two
\* members of one datatype that has a member of a third: every user-defined
\* datatype is in the bucket, once
C30_Witness ==
    /\ NoSelfReference(heap)
    /\ \E e \in IdsOf(heap, "Program") : Called(e, FALSE)
    /\ Len(depsResult[1].deps.datatypes) = UdtCount(heap)
    /\ UdtCount(heap) = MaxUdts
    /\ \E d \in IdsOf(heap, "DataType") :
          /\ Len(heap[d].members) = 2
          /\ heap[d].members[1].datatype = heap[d].members[2].datatype
          /\ heap[d].members[1].datatype # None
          /\ RecursedOn(heap, heap[d].members[1].datatype) # {}

====
